---- MODULE Spec2Model ----
(***************************************************************************)
(* k8s-lvm-manager: the scheduler extender (pkg/scheduler), the per-node   *)
(* LVM controller (pkg/manager), the LV manager (pkg/manager) and the      *)
(* dynamic provisioner (pkg/provisioner), coordinating through annotations *)
(* on PersistentVolumeClaims and PersistentVolumes.                        *)
(*                                                                         *)
(* Strings are sequences of atoms.  The atoms "-" and "/" are the two      *)
(* characters the code looks at; every other atom stands for a run of      *)
(* characters holding neither.  The empty string is <<>>.                  *)
(***************************************************************************)
EXTENDS Integers, Sequences, FiniteSets, TLC

VARIABLES
    pvcs,   \* cluster: claim key -> claim object (exists, class, ann)
    pvs,    \* cluster: claim key -> the PersistentVolume whose ClaimRef is that key
    store,  \* per node: the informer's cache of claims (shared object pointers)
    queue,  \* per node: the work queue's pending keys, no duplicates
    lvm,    \* per node: LVManager.LVM, the topology snapshot (vg -> set of lv names)
    host,   \* per node: what the host's LVM tools, mount table and mount directories hold
    wk,     \* per node: the worker's position and the locals of syncPVC and ReleaseLV
    flt,    \* the extender's filter handler: its position, arguments and locals
    obs,    \* what the syncPVC that returned (or crashed) in the last step did
    resp,   \* what the Filter call that returned in the last step returned
    mgr,    \* a component called on its own: an LVManager, its host, the last
            \* call that returned, the call that is between two of its tools
    run,    \* the worker goroutines of one Controller.Run and its work queue
    srv     \* the extender's HTTP server: its lock and the requests it serves

vars == <<pvcs, pvs, store, queue, lvm, host, wk, flt, obs, resp, mgr, run, srv>>

\* the cluster and its nodes, without the components called on their own
clusterVars == <<pvcs, pvs, store, queue, lvm, host, wk, flt, obs, resp>>

(***************************************************************************)
(* resourceVersion.  The API server accepts an Update when the object sent *)
(* carries the stored object's resourceVersion, which every write changes. *)
(* A copy of an object therefore carries the flag fresh: no write reached  *)
(* the stored object since the copy was read.                              *)
(***************************************************************************)

----------------------------------------------------------------------------
(* Annotation keys, pkg/util *)

AnnProvisionerPodName == "volume-provisioner.pingcap.com/podName"
AnnProvisionerHostPath == "volume-provisioner.pingcap.com/hostPath"
AnnProvisionerNode == "volume-provisioner.pingcap.com/node"
AnnProvisionerVGName == "volume-provisioner.pingcap.com/vgName"
AnnProvisionerLVName == "volume-provisioner.pingcap.com/lvName"
AnnProvisionerLVSize == "volume-provisioner.pingcap.com/lvSize"
AnnProvisionerLVDeleted == "volume-provisioner.pingcap.com/lvDeleted"
AnnProvisionerLVFsType == "volume-provisioner.pingcap.com/fsType"

\* a Go map[string]string: a function on the keys that are present
EmptyAnn == [k \in {} |-> <<>>]

\* m[k] of a Go map: the zero value "" when the key is absent
AnnGet(m, k) == IF k \in DOMAIN m THEN m[k] ELSE <<>>

\* v, ok := m[k]
AnnHas(m, k) == k \in DOMAIN m

\* m[k] = v
AnnPut(m, k, v) == [x \in (DOMAIN m) \cup {k} |-> IF x = k THEN v ELSE m[x]]

----------------------------------------------------------------------------
(* Process configuration *)

\* --domain-name
domainName == <<"pingcap.com">>
\* --storage-class
storageClass == <<"lvm-volume-provisioner">>
\* --base-dir
BaseDir == <<"/", "data">>
\* MY_NODE_NAME of the nodes that run the controller; the scheduler also
\* offers n2, a node whose controller takes no step
RNodes == {<<"n1">>}

----------------------------------------------------------------------------
(* The objects the model draws its inputs from *)

NS == <<"N">>
ClaimKeys == {<<NS, <<"C">>>>}

VG1 == <<"vg1">>
VG2 == <<"vg", "-", "2">>
HostVGs == {VG1}

ResVG1 == domainName \o <<"/">> \o VG1
ResVG2 == domainName \o <<"/">> \o VG2
ResCPU == <<"cpu">>

Q10 == <<"10Gi">>
Q20 == <<"20Gi">>

\* a container is its Resources.Requests: a set of <<resource name, quantity>>
Pods ==
    { [ns |-> NS, name |-> <<"pod1">>, volumes |-> << <<>>, <<"C">> >>,
       containers |-> << {<<ResCPU, <<"1">>>>, <<ResVG1, Q10>>} >>],
      [ns |-> NS, name |-> <<"pod2">>, volumes |-> << <<"C">> >>,
       containers |-> << {<<ResVG1, Q10>>}, {<<ResVG2, Q20>>}, {<<ResCPU, <<"1">>>>} >>],
      [ns |-> NS, name |-> <<"pod3">>, volumes |-> << <<"C">> >>,
       containers |-> << {<<ResCPU, <<"1">>>>} >>],
      [ns |-> NS, name |-> <<"pod4">>, volumes |-> << <<>> >>,
       containers |-> << {<<ResVG1, Q10>>} >>] }

\* args.Nodes.Items, by node name
NodeLists == { <<>>, << <<"n1">> >>, << <<"n2">> >>, << <<"n2">>, <<"n1">> >> }

\* the storage classes a claim is created with: <<>> is a nil StorageClassName
Classes == { <<>>, <<storageClass>>, << <<"standard">> >> }

NoClaim == [exists |-> FALSE, class |-> <<>>, ann |-> EmptyAnn]
\* by and src record who created a volume and from which claim annotations
NoVolume == [exists |-> FALSE, ann |-> EmptyAnn, by |-> "", src |-> EmptyAnn]

----------------------------------------------------------------------------
(* Strings *)

\* strings.HasPrefix(s, p)
HasPrefix(s, p) == Len(s) >= Len(p) /\ SubSeq(s, 1, Len(p)) = p

\* strings.Split(s, sep) for a one-character separator
RECURSIVE Split(_, _)
Split(s, sep) ==
    IF \E i \in 1..Len(s) : s[i] = sep
    THEN LET i == CHOOSE i \in 1..Len(s) :
                      s[i] = sep /\ \A j \in 1..(i - 1) : s[j] # sep
         IN  <<SubSeq(s, 1, i - 1)>> \o Split(SubSeq(s, i + 1, Len(s)), sep)
    ELSE <<s>>

\* path.Join(a, b) for clean, slash-free b: an empty element is dropped
PathJoin(a, b) ==
    IF b = <<>> THEN a ELSE IF a = <<>> THEN b ELSE a \o <<"/">> \o b

----------------------------------------------------------------------------
(* The cluster API: optimistic concurrency on resourceVersion *)

\* Update(obj) of the API server: the object must exist and obj must carry its
\* current resourceVersion
UpdateOutcome(fresh, cur) ==
    IF ~cur.exists THEN "notfound"
    ELSE IF ~fresh THEN "conflict"
    ELSE "ok"

----------------------------------------------------------------------------
(* Scheduler extender: lvmScheduler.Filter *)

\* the first volume of the pod that has a PersistentVolumeClaim source
RECURSIVE FirstClaim(_)
FirstClaim(volumes) ==
    IF volumes = <<>> THEN <<>>
    ELSE IF Head(volumes) # <<>> THEN Head(volumes)
    ELSE FirstClaim(Tail(volumes))

\* variant: the class test with == for !=
StorageClassSame(pvc) == pvc.class[1] = storageClass

\* *pvc.Spec.StorageClassName != ls.storageClass
StorageClassDiffers(pvc) == pvc.class[1] # storageClass

\* variant: the hostPath test with == for !=
ProvisionedTestInverted(annNode, annHostPath) == annNode # <<>> /\ annHostPath = <<>>

\* annNode != "" && annHostPath != ""
AlreadyProvisioned(annNode, annHostPath) == annNode # <<>> /\ annHostPath # <<>>

\* variant: the loop accepts any non-empty candidate list
NodeAmongNonEmpty(annNode, nodes) == Len(nodes) > 0

\* the loop over args.Nodes.Items looking for annNode
NodeAmong(annNode, nodes) == \E i \in 1..Len(nodes) : nodes[i] = annNode

NoRequest == [vg |-> <<>>, size |-> <<>>, panic |-> FALSE]

\* vgName = strings.Split(rn, "/")[1]; size = quantity.String()
RequestOf(r) ==
    LET parts == Split(r[1], "/")
    IN  IF Len(parts) < 2 THEN [vg |-> <<>>, size |-> <<>>, panic |-> TRUE]
        ELSE [vg |-> parts[2], size |-> r[2], panic |-> FALSE]

\* The loops over the containers and their requests.  Requests is a Go map:
\* its first entry carrying the prefix is any such entry; the break leaves
\* the inner loop only, so a later container overrides an earlier one.
RECURSIVE ScanContainers(_, _)
ScanContainers(containers, acc) ==
    IF containers = <<>> \/ acc.panic THEN {acc}
    ELSE LET m == {r \in Head(containers) : HasPrefix(r[1], domainName)}
         IN  IF m = {} THEN ScanContainers(Tail(containers), acc)
             ELSE UNION {ScanContainers(Tail(containers), RequestOf(r)) : r \in m}

\* variant: the last candidate for the first
SelectLastNode(annNode, nodes) ==
    IF annNode # <<>> THEN <<annNode>>
    ELSE IF Len(nodes) = 0 THEN <<>>
    ELSE <<nodes[Len(nodes)]>>

\* variant: the first candidate, whatever the annotation holds
SelectFirstNode(annNode, nodes) ==
    IF Len(nodes) = 0 THEN <<>> ELSE <<nodes[1]>>

\* nodeName := annotation, or args.Nodes.Items[0] when it is empty;
\* <<>> stands for the index-out-of-range panic on an empty list
SelectNode(annNode, nodes) ==
    IF annNode # <<>> THEN <<annNode>>
    ELSE IF Len(nodes) = 0 THEN <<>>
    ELSE <<nodes[1]>>

\* lvName := ns + "-" + pvcName
LVNameOf(ns, pvcName) == ns \o <<"-">> \o pvcName

\* the six annotation writes of the placement
PlacementAnn(ann, lvName, vgName, nodeName, podName, size) ==
    LET a1 == AnnPut(ann, AnnProvisionerLVName, lvName)
        a2 == AnnPut(a1, AnnProvisionerVGName, vgName)
        a3 == AnnPut(a2, AnnProvisionerNode, nodeName)
        a4 == AnnPut(a3, AnnProvisionerPodName, podName)
        a5 == AnnPut(a4, AnnProvisionerHostPath, <<>>)
    IN  AnnPut(a5, AnnProvisionerLVSize, size)

ErrNotBound == <<"waiting for pvc bound with pv">>

ErrInvalidNode(annNode, annHostPath) ==
    <<"invalid nodeName: ">> \o annNode \o <<" and hostPath: ">> \o annHostPath

\* what a Filter call returned: ret is "result" (an ExtenderFilterResult and a
\* nil error), "error" (a nil result and an error) or "panic"
FilterOut(ret, hasNodes, nodes, error) ==
    [ret |-> ret, hasNodes |-> hasNodes, nodes |-> nodes, error |-> error]

NoOut == FilterOut("none", FALSE, <<>>, <<>>)

\* Filter from the storage-class test on, for the claim it fetched; req is
\* what the request loops found.  plan "return" ends the call with out; plan
\* "update" sends ann to the API server and returns by its answer.
FilterPlan(pvc, pod, nodes, req) ==
    LET annNode == AnnGet(pvc.ann, AnnProvisionerNode)
        annHostPath == AnnGet(pvc.ann, AnnProvisionerHostPath)
        sel == SelectNode(annNode, nodes)
    IN  IF pvc.class = <<>>
        THEN [plan |-> "return", out |-> FilterOut("panic", FALSE, <<>>, <<>>), ann |-> pvc.ann]
        ELSE IF StorageClassDiffers(pvc)
        THEN [plan |-> "return", out |-> FilterOut("result", TRUE, nodes, <<>>), ann |-> pvc.ann]
        ELSE IF AlreadyProvisioned(annNode, annHostPath)
        THEN IF NodeAmong(annNode, nodes)
             THEN [plan |-> "return", out |-> FilterOut("result", TRUE, <<annNode>>, <<>>),
                   ann |-> pvc.ann]
             ELSE [plan |-> "return",
                   out |-> FilterOut("result", FALSE, <<>>, ErrInvalidNode(annNode, annHostPath)),
                   ann |-> pvc.ann]
        ELSE IF req.panic \/ sel = <<>>
        THEN [plan |-> "return", out |-> FilterOut("panic", FALSE, <<>>, <<>>), ann |-> pvc.ann]
        ELSE [plan |-> "update", out |-> FilterOut("result", FALSE, <<>>, ErrNotBound),
              ann |-> PlacementAnn(pvc.ann, LVNameOf(pod.ns, FirstClaim(pod.volumes)),
                                   req.vg, sel[1], pod.name, req.size)]

----------------------------------------------------------------------------
(* Volume resource manager: LVManager *)

\* a getDevPath that takes the group for the volume
getDevPathSwapped(lvName, vgName) ==
    <<"/", "dev", "/", "mapper", "/">> \o lvName \o <<"-">> \o vgName

\* strings.Replace(s, "-", "--", -1)
RECURSIVE DoubleHyphens(_)
DoubleHyphens(s) ==
    IF s = <<>> THEN <<>>
    ELSE IF Head(s) = "-" THEN <<"-", "-">> \o DoubleHyphens(Tail(s))
    ELSE <<Head(s)>> \o DoubleHyphens(Tail(s))

getDevPath(lvName, vgName) ==
    <<"/", "dev", "/", "mapper", "/">> \o DoubleHyphens(vgName) \o <<"-">> \o DoubleHyphens(lvName)

\* the host of one node: its logical volumes, as <<group, name>>, the paths
\* that are mounted and the mount directories that were made
HostState(lvs, mounts, dirs) == [lvs |-> lvs, mounts |-> mounts, dirs |-> dirs]

\* the result of one LVManager call: its error, the commands it ran (each
\* ends with its exit status: TRUE is exit 0, as the environment decided it)
\* and the host after
LVResult(err, cmds, h) == [err |-> err, cmds |-> cmds, host |-> h]

\* type VolumeGroup, without UUID and Tags; PVs and LVs by their key sets
VolumeGroup(name, size, free, pvNames, lvNames) ==
    [Name |-> name, Size |-> size, Free |-> free, PVs |-> pvNames, LVs |-> lvNames]

\* map[string]VolumeGroup{}
EmptyLVM == [v \in {} |-> VolumeGroup(<<>>, <<>>, <<>>, {}, {})]

\* an AllocateLV that does not look the group up
AllocateLVUnchecked(m, h, lvName, vgName, size, ok) ==
    IF vgName \in DOMAIN m /\ lvName \in m[vgName].LVs THEN LVResult(FALSE, <<>>, h)
    ELSE LET created == ok /\ <<vgName, lvName>> \notin h.lvs /\ vgName \in HostVGs
             cmd == <<"lvcreate", lvName, size, vgName, created>>
         IN  IF created
             THEN LVResult(FALSE, <<cmd>>, HostState(h.lvs \cup {<<vgName, lvName>>}, h.mounts, h.dirs))
             ELSE LVResult(TRUE, <<cmd>>, h)

\* AllocateLV: the snapshot m (LVManager.LVM) decides; lvcreate runs only for
\* a known group whose snapshot holds no such volume
AllocateLV(m, h, lvName, vgName, size, ok) ==
    IF vgName \notin DOMAIN m THEN LVResult(TRUE, <<>>, h)
    ELSE IF lvName \in m[vgName].LVs THEN LVResult(FALSE, <<>>, h)
    ELSE LET \* lvcreate fails whenever the name is taken or the group is missing
             created == ok /\ <<vgName, lvName>> \notin h.lvs /\ vgName \in HostVGs
             cmd == <<"lvcreate", lvName, size, vgName, created>>
         IN  IF created
             THEN LVResult(FALSE, <<cmd>>, HostState(h.lvs \cup {<<vgName, lvName>>}, h.mounts, h.dirs))
             ELSE LVResult(TRUE, <<cmd>>, h)

FormatLV(h, lvName, vgName, fsType, ok) ==
    LVResult(~ok, << <<"mkfs", fsType, getDevPath(lvName, vgName), ok>> >>, h)

\* the mount path MountLV returns on success
MountPath(lvName) == PathJoin(BaseDir, lvName)

\* os.MkdirAll(mntPath, os.ModeDir) of MountLV; mk tells whether it succeeds
MkdirAll(h, mntPath, mk) ==
    IF mk THEN HostState(h.lvs, h.mounts, h.dirs \cup {mntPath}) ELSE h

\* variant: a failed mount is reported as a success
MountUnchecked(h, lvName, vgName, ok) ==
    LET cmd == <<"mount", getDevPath(lvName, vgName), MountPath(lvName), ok>>
    IN  IF ok
        THEN LVResult(FALSE, <<cmd>>,
                      HostState(h.lvs, h.mounts \cup {MountPath(lvName)}, h.dirs))
        ELSE LVResult(FALSE, <<cmd>>, h)

\* the mount command of MountLV and its return
Mount(h, lvName, vgName, ok) ==
    LET cmd == <<"mount", getDevPath(lvName, vgName), MountPath(lvName), ok>>
    IN  IF ok
        THEN LVResult(FALSE, <<cmd>>,
                      HostState(h.lvs, h.mounts \cup {MountPath(lvName)}, h.dirs))
        ELSE LVResult(TRUE, <<cmd>>, h)

UnmountLV(h, name, ok) ==
    LET cmd == <<"umount", PathJoin(BaseDir, name), ok>>
    IN  IF ok THEN LVResult(FALSE, <<cmd>>,
                            HostState(h.lvs, h.mounts \ {PathJoin(BaseDir, name)}, h.dirs))
        ELSE LVResult(TRUE, <<cmd>>, h)

RemoveLV(h, lvName, vgName, ok) ==
    LET dev == getDevPath(lvName, vgName)
        cmd == <<"lvremove", dev, ok>>
    IN  IF ok
        THEN LVResult(FALSE, <<cmd>>,
                      HostState({p \in h.lvs : getDevPath(p[2], p[1]) # dev}, h.mounts, h.dirs))
        ELSE LVResult(TRUE, <<cmd>>, h)

\* type LVMReport with one Report: the rows of vgs, pvs and lvs, in order
Report(vg, pv, lv) == [VG |-> vg, PV |-> pv, LV |-> lv]

\* type VG, type PV, type LV: the columns the manager uses
VGRow(name, size, free) == [VGName |-> name, VGSize |-> size, VGFree |-> free]
PVRow(name, vg) == [PVName |-> name, VGName |-> vg]
LVRow(name, vg) == [LVName |-> name, VGName |-> vg]

\* a scanLVM that drops the error of lvs
scanLVMDroppingLVError(out, okVG, okPV, okLV) ==
    IF ~okVG THEN [err |-> TRUE, report |-> Report(<<>>, <<>>, <<>>)]
    ELSE IF ~okPV THEN [err |-> TRUE, report |-> Report(out.VG, <<>>, <<>>)]
    ELSE IF ~okLV THEN [err |-> FALSE, report |-> Report(out.VG, out.PV, <<>>)]
    ELSE [err |-> FALSE, report |-> out]

\* scanLVM: vgs, pvs and lvs in turn, each decoded into the same report; out
\* is what the three tools print, okVG, okPV and okLV say whether each ran
\* and parsed.  The first failure returns the report as far as it was read.
scanLVM(out, okVG, okPV, okLV) ==
    IF ~okVG THEN [err |-> TRUE, report |-> Report(<<>>, <<>>, <<>>)]
    ELSE IF ~okPV THEN [err |-> TRUE, report |-> Report(out.VG, <<>>, <<>>)]
    ELSE IF ~okLV THEN [err |-> TRUE, report |-> Report(out.VG, out.PV, <<>>)]
    ELSE [err |-> FALSE, report |-> out]

\* the index of the last row of rows that carries the group name v
LastRow(rows, v) ==
    CHOOSE i \in 1..Len(rows) :
      rows[i].VGName = v /\ \A j \in (i + 1)..Len(rows) : rows[j].VGName # v

\* a SyncLVMStatus that fills the map it has instead of a new one
SyncLVMStatusKeepingOld(m, s) ==
    LET r == s.report
        names == {r.VG[i].VGName : i \in 1..Len(r.VG)}
        orphan == \/ \E i \in 1..Len(r.PV) : r.PV[i].VGName \notin names \cup DOMAIN m
                  \/ \E i \in 1..Len(r.LV) : r.LV[i].VGName \notin names \cup DOMAIN m
        rowsOf(v) == {r.LV[i].LVName : i \in {j \in 1..Len(r.LV) : r.LV[j].VGName = v}}
        vgs == [v \in names \cup DOMAIN m |->
                  IF v \in names
                  THEN LET row == r.VG[LastRow(r.VG, v)]
                       IN  VolumeGroup(v, row.VGSize, row.VGFree,
                                       {r.PV[i].PVName :
                                           i \in {j \in 1..Len(r.PV) : r.PV[j].VGName = v}},
                                       rowsOf(v))
                  ELSE [m[v] EXCEPT !.LVs = @ \cup rowsOf(v)]]
    IN  IF s.err THEN [ret |-> "err", lvm |-> m]
        ELSE IF orphan THEN [ret |-> "panic", lvm |-> m]
        ELSE [ret |-> "ok", lvm |-> vgs]

\* SyncLVMStatus on the outcome s of scanLVM: an error keeps the snapshot; a
\* pv or lv row of a group without vg row writes into the nil map of a zero
\* VolumeGroup, which panics before m.LVM is assigned; else the new map
\* replaces the snapshot
SyncLVMStatus(m, s) ==
    LET r == s.report
        names == {r.VG[i].VGName : i \in 1..Len(r.VG)}
        orphan == \/ \E i \in 1..Len(r.PV) : r.PV[i].VGName \notin names
                  \/ \E i \in 1..Len(r.LV) : r.LV[i].VGName \notin names
        vgs == [v \in names |->
                  LET row == r.VG[LastRow(r.VG, v)]
                  IN  VolumeGroup(v, row.VGSize, row.VGFree,
                                  {r.PV[i].PVName : i \in {j \in 1..Len(r.PV) : r.PV[j].VGName = v}},
                                  {r.LV[i].LVName : i \in {j \in 1..Len(r.LV) : r.LV[j].VGName = v}})]
    IN  IF s.err THEN [ret |-> "err", lvm |-> m]
        ELSE IF orphan THEN [ret |-> "panic", lvm |-> m]
        ELSE [ret |-> "ok", lvm |-> vgs]

\* a set as a sequence, in the order the tool lists it
RECURSIVE SeqOf(_)
SeqOf(S) ==
    IF S = {} THEN <<>>
    ELSE LET x == CHOOSE y \in S : TRUE IN <<x>> \o SeqOf(S \ {x})

\* what vgs, pvs and lvs print on host h: its groups, one physical volume
\* per group and its logical volumes; when the host has a physical volume
\* that belongs to no group (spare), pvs prints its row with an empty
\* vg_name, a group vgs does not list
HostReport(h, spare) ==
    Report(SeqOf({VGRow(v, <<"1", "g">>, <<"512", "m">>) : v \in HostVGs}),
           SeqOf({PVRow(<<"/", "dev", "/", "loop0">>, v) : v \in HostVGs})
             \o (IF spare THEN <<PVRow(<<"/", "dev", "/", "loop1">>, <<>>)>> ELSE <<>>),
           SeqOf({LVRow(p[2], p[1]) : p \in h.lvs}))

\* the outcomes of the three scans: a tool runs only when the ones before succeeded
Scans == {<<TRUE, TRUE, TRUE>>, <<FALSE, TRUE, TRUE>>, <<TRUE, FALSE, TRUE>>,
          <<TRUE, TRUE, FALSE>>}

\* the snapshot main() takes before the controller starts
InitialLVM ==
    SyncLVMStatus(EmptyLVM, scanLVM(HostReport(HostState({}, {}, {}), FALSE), TRUE, TRUE, TRUE)).lvm

----------------------------------------------------------------------------
(* Node controller: syncPVC for a claim found in the store *)

\* variant: the node test only asks for the annotation
ManagedBySomeNode(ann, n) == AnnHas(ann, AnnProvisionerNode)

\* the negation of: !ok || nodeName != c.nodeName
ManagedByMe(ann, n) ==
    AnnHas(ann, AnnProvisionerNode) /\ AnnGet(ann, AnnProvisionerNode) = n

\* the negation of: !ok || hostPath != ""
NotYetProvisioned(ann) ==
    AnnHas(ann, AnnProvisionerHostPath) /\ AnnGet(ann, AnnProvisionerHostPath) = <<>>

\* fsType := "ext4"
FsType == <<"ext4">>

----------------------------------------------------------------------------
(* Node controller: ReleaseLV *)

\* PersistentVolumes().List: the volumes that exist, in the server's order
KeyOrder == <<CHOOSE k \in ClaimKeys : TRUE>>

ListPVs(volumes) == SelectSeq(KeyOrder, LAMBDA k : volumes[k].exists)

\* the first item whose ClaimRef names pvcNamespace/pvcName; <<>> when none
RECURSIVE FindPV(_, _)
FindPV(items, key) ==
    IF items = <<>> THEN <<>>
    ELSE IF Head(items) = key THEN <<Head(items)>>
    ELSE FindPV(Tail(items), key)

\* variant: the owner test only asks for some owner
OwnedBySomeNode(ann, n) == AnnGet(ann, AnnProvisionerNode) # <<>>

\* the negation of: node := ann[AnnProvisionerNode]; node != c.nodeName
OwnedByMe(ann, n) == AnnGet(ann, AnnProvisionerNode) = n

\* wait.Poll(3*time.Second, 30*time.Second, ...), in seconds
PollInterval == 3
PollTimeout == 30

\* pv.Annotations[util.AnnProvisionerLVDeleted] = "true"
MarkDeleted(ann) == AnnPut(ann, AnnProvisionerLVDeleted, <<"true">>)

\* the attempts wait.Poll makes when the condition returns within one
\* interval: one per tick before the timeout, and a last one when the
\* poller closes its channel at the timeout
MaxAttempts == (PollTimeout - 1) \div PollInterval + 1

\* One call of the poll's condition on the local volume pv up to the return
\* of its Update (valid is false after a failed re-read, when pv has no
\* annotation map to write to): what it returns, the local volume afterwards
\* and the object it stored.  fault is an API error other than a conflict;
\* after a conflict the condition goes on to re-read the volume.
PollCondition(pv, valid, fresh, cur, fault) ==
    LET marked == [pv EXCEPT !.ann = MarkDeleted(pv.ann)]
        outcome == IF fault THEN "error" ELSE UpdateOutcome(fresh, cur)
    IN  IF ~valid
        THEN [ret |-> "panic", pv |-> pv, valid |-> FALSE, fresh |-> FALSE, stored |-> cur,
              outcome |-> "none"]
        ELSE IF outcome = "ok"
        THEN [ret |-> "done", pv |-> marked, valid |-> TRUE, fresh |-> FALSE,
              stored |-> marked, outcome |-> outcome]
        ELSE IF outcome = "conflict"
        THEN [ret |-> "reread", pv |-> marked, valid |-> TRUE, fresh |-> FALSE,
              stored |-> cur, outcome |-> outcome]
        ELSE [ret |-> "retry", pv |-> marked, valid |-> TRUE, fresh |-> fresh, stored |-> cur,
              outcome |-> outcome]

\* pv, err = PersistentVolumes().Get(pvName): the cluster's volume, or nil
\* with the error that the condition logs
RereadPV(cur, g) ==
    IF g THEN [pv |-> cur, valid |-> TRUE, fresh |-> TRUE]
    ELSE [pv |-> NoVolume, valid |-> FALSE, fresh |-> FALSE]

----------------------------------------------------------------------------
(* Dynamic provisioner: Controller.Provision *)

\* variant: a volume is returned whatever the hostPath annotation holds
ProvisionUnready(ann) ==
    LET nodeName == AnnGet(ann, AnnProvisionerNode)
        podName == AnnGet(ann, AnnProvisionerPodName)
        hostPath == AnnGet(ann, AnnProvisionerHostPath)
    IN  IF nodeName = <<>> THEN [err |-> TRUE, ann |-> EmptyAnn, path |-> <<>>]
        ELSE IF podName = <<>> THEN [err |-> TRUE, ann |-> EmptyAnn, path |-> <<>>]
        ELSE [err |-> FALSE,
              ann |-> AnnPut(AnnPut(AnnPut(EmptyAnn, AnnProvisionerNode, nodeName),
                                    AnnProvisionerHostPath, hostPath),
                             AnnProvisionerPodName, podName),
              path |-> hostPath]

\* the volume Provision returns for a claim, or its error
Provision(ann) ==
    LET nodeName == AnnGet(ann, AnnProvisionerNode)
        podName == AnnGet(ann, AnnProvisionerPodName)
        hostPath == AnnGet(ann, AnnProvisionerHostPath)
    IN  IF nodeName = <<>> THEN [err |-> TRUE, ann |-> EmptyAnn, path |-> <<>>]
        ELSE IF podName = <<>> THEN [err |-> TRUE, ann |-> EmptyAnn, path |-> <<>>]
        ELSE IF AnnHas(ann, AnnProvisionerHostPath) /\ hostPath # <<>>
        THEN [err |-> FALSE,
              ann |-> AnnPut(AnnPut(AnnPut(EmptyAnn, AnnProvisionerNode, nodeName),
                                    AnnProvisionerHostPath, hostPath),
                             AnnProvisionerPodName, podName),
              path |-> hostPath]
        ELSE [err |-> TRUE, ann |-> EmptyAnn, path |-> <<>>]

----------------------------------------------------------------------------
(* Node capacity: Controller.UpdateNodeStatus *)

\* the one volume group UpdateNodeStatus looks up
TrackedVG == <<"loopback", "-", "disk">>

\* strings.ToUpper, on the letters the sizes of this model are written with
UpperAtom(a) ==
    CASE a = "m" -> "M"
      [] a = "g" -> "G"
      [] a = "k" -> "K"
      [] OTHER -> a

ToUpper(str) == [i \in 1..Len(str) |-> UpperAtom(str[i])]

NodePatch(op, path, value) == [Op |-> op, Path |-> path, Value |-> value]

\* fmt.Sprintf("/status/capacity/%s~1%s", domain, name)
CapacityPath(domain, name) ==
    <<"/", "status", "/", "capacity", "/">> \o domain \o <<"~1">> \o name

\* UpdateNodeStatus(vgs): the Patch calls it sends to the node's status, each
\* a list of operations; ok is whether the API server accepts the patch
UpdateNodeStatus(vgs, ok) ==
    IF DOMAIN vgs = {} THEN [err |-> FALSE, sent |-> <<>>]
    ELSE IF TrackedVG \notin DOMAIN vgs THEN [err |-> FALSE, sent |-> <<>>]
    ELSE LET vg == vgs[TrackedVG]
             patches == <<NodePatch("add", CapacityPath(domainName, vg.Name),
                                    ToUpper(vg.Size))>>
         IN  [err |-> ~ok, sent |-> <<patches>>]

----------------------------------------------------------------------------
(* State *)

\* a copy of a claim, as the store or a Filter call holds it
CopyOf(claim, fresh) ==
    [exists |-> claim.exists, class |-> claim.class, ann |-> claim.ann, fresh |-> fresh]

\* the worker between two keys.  At work it holds its key and the locals of
\* syncPVC: the annotations it read (seen), whether the host held the volume
\* then (had), whether the store still holds the object it got (same), the
\* commands it ran (cmds), the path MountLV returned (hostPath), what
\* syncPVC returned (ret) and the report scanLVM has read so far (report);
\* in ReleaseLV's poll the volume pv (valid is false
\* after a failed re-read), the attempts made, whether each of them ended in
\* a conflict and how the last one ended
IdleWorker ==
    [pc |-> "idle", key |-> <<>>, pv |-> NoVolume, valid |-> FALSE, fresh |-> FALSE,
     seen |-> EmptyAnn, cmds |-> <<>>, tries |-> 0, allConflict |-> TRUE, last |-> "none",
     ret |-> "none", same |-> FALSE, had |-> FALSE, hostPath |-> <<>>,
     report |-> Report(<<>>, <<>>, <<>>)]

\* what one syncPVC on node did: the annotations it acted on (seen), whether
\* it found its object, whether the host held the volume before (had), the
\* host commands it ran, its result, whether it wrote to the cluster, the
\* poll's attempts and whether each of them ended in a conflict
Observation(node, kind, found, seen, had, cmds, result, wrote, tries, allConflict) ==
    [node |-> node, kind |-> kind, found |-> found, seen |-> seen, had |-> had,
     cmds |-> cmds, result |-> result, wrote |-> wrote, tries |-> tries,
     allConflict |-> allConflict]

NoObservation ==
    Observation(<<>>, "none", FALSE, EmptyAnn, FALSE, <<>>, "none", FALSE, 0, TRUE)

IdleFilter ==
    [pc |-> "idle", pod |-> CHOOSE p \in Pods : TRUE, nodes |-> <<>>, key |-> <<>>,
     pvc |-> CopyOf(NoClaim, FALSE), req |-> NoRequest]

\* what one Filter call returned, for which arguments and which claim as it
\* read it, and the annotations it stored when it updated the claim
Response(pod, nodes, pvc, out, wrote, sent) ==
    [pod |-> pod, nodes |-> nodes, pvc |-> pvc, out |-> out, wrote |-> wrote, sent |-> sent]

NoResponse ==
    Response(CHOOSE p \in Pods : TRUE, <<>>, CopyOf(NoClaim, FALSE), NoOut, FALSE, EmptyAnn)

\* a call of a component on its own: what it was given, the snapshot and
\* the host it found (a call of more than one step: those its last step
\* found), what it returned
Call(op, args, before, found, result) ==
    [op |-> op, args |-> args, before |-> before, host |-> found, result |-> result]

NoCall == Call("none", <<>>, EmptyLVM, HostState({}, {}, {}), <<>>)

\* a call of MountLV, or of the provisioning statements of syncPVC, that has
\* not returned is held as: the statement it is at (pc), what it was given,
\* the volume and group it works on, the commands it has run
NotRunning ==
    [op |-> "none", pc |-> "none", args |-> <<>>, lv |-> <<>>, vg |-> <<>>, cmds |-> <<>>]

\* LVManager{BaseDir: baseDir} on a host with no logical volume
IdleManager ==
    [lvm |-> EmptyLVM, host |-> HostState({}, {}, {}), ret |-> NoCall, at |-> NotRunning]

\* the -workers flag's default
workers == 5

Workers == 1..workers

\* the claims the workers of one Controller.Run are handed
RunKeys == {<<NS, <<"C">>>>, <<NS, <<"D">>>>}

\* workqueue.New(): the items in the order they are handed out, the set of
\* items that need processing, the set of items being processed
NewQueue == [queue |-> <<>>, dirty |-> {}, processing |-> {}, shuttingDown |-> FALSE]

\* variant: an Add that appends whatever is pending
QueueAddAlways(q, item) ==
    IF q.shuttingDown THEN q
    ELSE IF item \in q.processing THEN [q EXCEPT !.dirty = @ \cup {item}]
    ELSE [q EXCEPT !.dirty = @ \cup {item}, !.queue = Append(@, item)]

\* variant: an Add that does not look at what is being processed
QueueAddWhileProcessing(q, item) ==
    IF q.shuttingDown THEN q
    ELSE IF item \in q.dirty THEN q
    ELSE [q EXCEPT !.dirty = @ \cup {item}, !.queue = Append(@, item)]

\* c.queue.Add(item)
QueueAdd(q, item) ==
    IF q.shuttingDown THEN q
    ELSE IF item \in q.dirty THEN q
    ELSE IF item \in q.processing THEN [q EXCEPT !.dirty = @ \cup {item}]
    ELSE [q EXCEPT !.dirty = @ \cup {item}, !.queue = Append(@, item)]

\* c.queue.Get() on a queue that holds an item: the queue after it handed
\* out its head
QueueGet(q) ==
    [q EXCEPT !.queue = Tail(@), !.processing = @ \cup {Head(q.queue)},
              !.dirty = @ \ {Head(q.queue)}]

\* c.queue.Done(item): an item added while it was processed is queued now
QueueDone(q, item) ==
    LET rest == [q EXCEPT !.processing = @ \ {item}]
    IN  IF item \in q.dirty THEN [rest EXCEPT !.queue = Append(@, item)] ELSE rest

\* c.queue.ShutDown()
QueueShutDown(q) == [q EXCEPT !.shuttingDown = TRUE]

\* the notifications counted for one key between two Gets of it
MaxAdds == 3

\* the work queue holds no key, every worker waits in queue.Get; adds counts
\* the notifications for a key since it was last handed out
IdleRun ==
    [q |-> NewQueue, adds |-> [k \in RunKeys |-> 0],
     pc |-> [w \in Workers |-> "Get"], key |-> [w \in Workers |-> <<>>]]

\* the HTTP requests the extender's server is sent at once
Requests == 1..2

\* one request in server.filterNode: pc is "idle" (not sent yet), "Lock" (at
\* svr.lock.Lock()), "Filter" (in Filter, before it fetched the claim),
\* "Update" (at PersistentVolumeClaims(ns).Update) or "done"; pvc is the claim
\* as Filter fetched it, req what its request loops found, out what it
\* returned, failed whether its Get or its Update returned an error of the
\* API server that is no conflict
IdleRequest ==
    [pc |-> "idle", pvc |-> CopyOf(NoClaim, FALSE), req |-> NoRequest, out |-> NoOut,
     failed |-> FALSE]

\* the server with the claim N/C of the configured class, unassigned, and
\* requests that carry args (a pod and a node list each); lock is the
\* request that holds svr.lock (0: none), blocked the requests that stood
\* at the lock while another one ran Filter
ServerWith(args) ==
    [claim |-> [exists |-> TRUE, class |-> <<storageClass>>, ann |-> EmptyAnn],
     args |-> args, lock |-> 0, blocked |-> {},
     req |-> [r \in Requests |-> IdleRequest]]

IdleServer == ServerWith([r \in Requests |-> <<CHOOSE p \in Pods : TRUE, <<>>>>])

\* annotations a claim may carry when it is created: none for a claim of the
\* configured class, anything for a claim the extender does not manage
ForeignAnn ==
    AnnPut(AnnPut(EmptyAnn, AnnProvisionerNode, <<"n1">>), AnnProvisionerHostPath,
           <<"/", "mnt", "/", "x">>)

\* the annotations of a claim of the configured class that Filter placed on
\* n2 for pod1 and that the controller of n2 provisioned
ElsewhereAnn ==
    [a \in {AnnProvisionerNode, AnnProvisionerVGName, AnnProvisionerLVName,
            AnnProvisionerHostPath, AnnProvisionerPodName, AnnProvisionerLVSize} |->
       CASE a = AnnProvisionerNode -> <<"n2">>
         [] a = AnnProvisionerVGName -> VG1
         [] a = AnnProvisionerLVName -> <<"N", "-", "C">>
         [] a = AnnProvisionerHostPath -> MountPath(<<"N", "-", "C">>)
         [] a = AnnProvisionerPodName -> <<"pod1">>
         [] a = AnnProvisionerLVSize -> Q10]

\* a claim of the configured class starts without annotations, or as the
\* node outside RNodes left it
InitialAnns(class) ==
    IF class = <<storageClass>> THEN {EmptyAnn, ElsewhereAnn} ELSE {EmptyAnn, ForeignAnn}

Init ==
    /\ pvcs \in {f \in [ClaimKeys -> {[exists |-> TRUE, class |-> c, ann |-> a] :
                                          c \in Classes, a \in {EmptyAnn, ForeignAnn, ElsewhereAnn}}] :
                    \A k \in ClaimKeys : f[k].ann \in InitialAnns(f[k].class)}
    /\ pvs = [k \in ClaimKeys |-> NoVolume]
    /\ store = [n \in RNodes |-> [k \in ClaimKeys |-> CopyOf(NoClaim, FALSE)]]
    /\ queue = [n \in RNodes |-> <<>>]
    /\ lvm = [n \in RNodes |-> InitialLVM]
    /\ host = [n \in RNodes |-> HostState({}, {}, {})]
    /\ wk = [n \in RNodes |-> IdleWorker]
    /\ flt = IdleFilter
    /\ obs = NoObservation
    /\ resp = NoResponse
    /\ mgr = IdleManager
    /\ run = IdleRun
    /\ srv = IdleServer

\* a step that is no return of syncPVC and no return of Filter
Quiet == obs' = NoObservation /\ resp' = NoResponse

\* a write to claim key reaches the API server: every copy of it is stale
StaleStore(st, key) ==
    [n \in RNodes |-> [k \in ClaimKeys |->
        IF k = key THEN [st[n][k] EXCEPT !.fresh = FALSE] ELSE st[n][k]]]

StaleFilter(f, key) == IF f.key = key THEN [f EXCEPT !.pvc.fresh = FALSE] ELSE f

----------------------------------------------------------------------------
(* Scheduler extender actions.  server.filterNode holds svr.lock from the *)
(* request's start to its end, so one Filter call is in progress at most. *)

\* Filter up to its return, or up to PersistentVolumeClaims(ns).Update when
\* it reaches the placement
FilterStart(pod, nodes) ==
    /\ flt.pc = "idle"
    /\ LET pvcName == FirstClaim(pod.volumes)
           key == <<pod.ns, pvcName>>
           pvc == CopyOf(pvcs[key], TRUE)
           none == CopyOf(NoClaim, FALSE)
       IN  IF pvcName = <<>>
           THEN /\ resp' = Response(pod, nodes, none,
                                    FilterOut("error", FALSE, <<>>, <<"empty pvc">>), FALSE, EmptyAnn)
                /\ flt' = flt
           ELSE IF key \notin ClaimKeys \/ ~pvcs[key].exists
           THEN /\ resp' = Response(pod, nodes, none,
                                    FilterOut("error", FALSE, <<>>, <<"not found">>), FALSE, EmptyAnn)
                /\ flt' = flt
           ELSE \E req \in ScanContainers(pod.containers, NoRequest) :
                  LET p == FilterPlan(pvc, pod, nodes, req)
                  IN  IF p.plan = "return"
                      THEN /\ resp' = Response(pod, nodes, pvc, p.out, FALSE, EmptyAnn)
                           /\ flt' = flt
                      ELSE /\ resp' = NoResponse
                           /\ flt' = [pc |-> "update", pod |-> pod, nodes |-> nodes,
                                      key |-> key, pvc |-> pvc, req |-> req]
    /\ obs' = NoObservation
    /\ UNCHANGED <<pvcs, pvs, store, queue, lvm, host, wk, mgr, run, srv>>

\* PersistentVolumeClaims(ns).Update(pvc) of the placement, and the return
FilterFinish ==
    /\ flt.pc = "update"
    /\ LET p == FilterPlan(flt.pvc, flt.pod, flt.nodes, flt.req)
           outcome == UpdateOutcome(flt.pvc.fresh, pvcs[flt.key])
       IN  IF outcome = "ok"
           THEN /\ resp' = Response(flt.pod, flt.nodes, flt.pvc, p.out, TRUE, p.ann)
                /\ pvcs' = [pvcs EXCEPT ![flt.key].ann = p.ann]
                /\ store' = StaleStore(store, flt.key)
           ELSE /\ resp' = Response(flt.pod, flt.nodes, flt.pvc,
                                    FilterOut("error", FALSE, <<>>, <<outcome>>), FALSE, EmptyAnn)
                /\ UNCHANGED <<pvcs, store>>
    /\ flt' = IdleFilter
    /\ obs' = NoObservation
    /\ UNCHANGED <<pvs, queue, lvm, host, wk, mgr, run, srv>>

----------------------------------------------------------------------------
(* Informer and work queue *)

\* the informer replaces the stored claim key of node n: a worker that holds
\* the object it got from the store no longer shares it with the store
Replaced(w, n, key) ==
    IF w[n].pc \in {"tools", "format", "mkdir", "mount", "update"} /\ w[n].key = key
    THEN [w EXCEPT ![n].same = FALSE] ELSE w

\* queue.Add(key): a key already pending is not added again
Enqueue(q, key) == IF \E i \in 1..Len(q) : q[i] = key THEN q ELSE Append(q, key)

\* a watch notification (add, update or delete) reaches node n: the store
\* takes the cluster's object and the key is queued
Watch(n, key) ==
    /\ wk[n].pc # "crashed"
    /\ ~store[n][key].fresh
    /\ store[n][key].exists \/ pvcs[key].exists
    /\ store' = [store EXCEPT ![n][key] = CopyOf(pvcs[key], TRUE)]
    /\ wk' = Replaced(wk, n, key)
    /\ queue' = [queue EXCEPT ![n] = Enqueue(queue[n], key)]
    /\ Quiet
    /\ UNCHANGED <<pvcs, pvs, lvm, host, flt, mgr, run, srv>>

\* the informer's 30 s resync replays every stored claim as an update
Resync(n, key) ==
    /\ wk[n].pc # "crashed"
    /\ store[n][key].exists
    /\ queue[n] # Enqueue(queue[n], key)
    /\ queue' = [queue EXCEPT ![n] = Enqueue(queue[n], key)]
    /\ Quiet
    /\ UNCHANGED <<pvcs, pvs, store, lvm, host, wk, flt, mgr, run, srv>>

----------------------------------------------------------------------------
(* Node controller actions.  One worker per node.  Every access to what   *)
(* the worker shares with the informer, the scheduler extender and the    *)
(* API server is a step of its own: queue.Get, store.GetByKey, each host  *)
(* tool the worker waits for, os.MkdirAll, each API call, the assignment  *)
(* of the snapshot and the deferred queue.Done.                           *)

\* key, quit := c.queue.Get(): the worker takes the queue's head; from here
\* to Done the key is being processed and a notification of it is pending
WorkerGet(n) ==
    /\ wk[n].pc = "idle" /\ queue[n] # <<>>
    /\ wk' = [wk EXCEPT ![n] = [IdleWorker EXCEPT !.pc = "sync", !.key = Head(queue[n])]]
    /\ queue' = [queue EXCEPT ![n] = Tail(queue[n])]
    /\ Quiet
    /\ UNCHANGED <<pvcs, pvs, store, lvm, host, flt, mgr, run, srv>>

\* syncPVC returned ret on node n: the worker logs an error and goes on to
\* the refresh
SyncReturn(n, seen, cmds, ret) ==
    wk' = [wk EXCEPT ![n] = [IdleWorker EXCEPT !.pc = "refresh", !.key = wk[n].key,
                                               !.seen = seen, !.cmds = cmds, !.ret = ret]]

\* SyncLVMStatus goes on from the outcome s of its scanLVM: an error is
\* returned and logged and the snapshot kept, a report is made the new
\* snapshot, and the round goes on to Done; a pv or lv row of a group
\* without vg row panics, which ends the process (the deferred Done runs
\* while the panic unwinds)
RefreshReturn(n, s) ==
    LET r == SyncLVMStatus(lvm[n], s)
    IN  /\ lvm' = [lvm EXCEPT ![n] = r.lvm]
        /\ IF r.ret = "panic"
           THEN /\ wk' = [wk EXCEPT ![n] = [IdleWorker EXCEPT !.pc = "crashed"]]
                /\ obs' = Observation(n, "refresh", FALSE, wk[n].seen, FALSE, wk[n].cmds,
                                      "panic", FALSE, 0, TRUE)
           ELSE /\ wk' = [wk EXCEPT ![n] = [IdleWorker EXCEPT !.pc = "done",
                                                              !.key = wk[n].key,
                                                              !.ret = wk[n].ret]]
                \* observed: the refresh that followed the syncPVC that returned ret
                /\ obs' = Observation(n, "refresh", FALSE, wk[n].seen, FALSE, wk[n].cmds,
                                      wk[n].ret, FALSE, 0, TRUE)

\* c.lvm.SyncLVMStatus() after syncPVC returned: scanLVM runs vgs and waits
\* for it; its failure returns from scanLVM
RefreshVGs(n) ==
    /\ wk[n].pc = "refresh"
    /\ LET read == [wk[n].report EXCEPT !.VG = HostReport(host[n], FALSE).VG]
       IN  \/ /\ wk' = [wk EXCEPT ![n].pc = "pvs", ![n].report = read]
              /\ obs' = NoObservation
              /\ lvm' = lvm
           \/ RefreshReturn(n, scanLVM(read, FALSE, TRUE, TRUE))
    /\ resp' = NoResponse
    /\ UNCHANGED <<pvcs, pvs, store, queue, host, flt, mgr, run, srv>>

\* scanLVM runs pvs and waits for it; spare tells whether the host has a
\* physical volume outside every group at that time
RefreshPVs(n) ==
    /\ wk[n].pc = "pvs"
    /\ \E spare \in BOOLEAN :
       LET read == [wk[n].report EXCEPT !.PV = HostReport(host[n], spare).PV]
       IN  \/ /\ wk' = [wk EXCEPT ![n].pc = "lvs", ![n].report = read]
              /\ obs' = NoObservation
              /\ lvm' = lvm
           \/ RefreshReturn(n, scanLVM(read, TRUE, FALSE, TRUE))
    /\ resp' = NoResponse
    /\ UNCHANGED <<pvcs, pvs, store, queue, host, flt, mgr, run, srv>>

\* scanLVM runs lvs and waits for it
RefreshLVs(n) ==
    /\ wk[n].pc = "lvs"
    /\ LET read == [wk[n].report EXCEPT !.LV = HostReport(host[n], FALSE).LV]
       IN  \/ /\ wk' = [wk EXCEPT ![n].pc = "assign", ![n].report = read]
              /\ obs' = NoObservation
              /\ lvm' = lvm
           \/ RefreshReturn(n, scanLVM(read, TRUE, TRUE, FALSE))
    /\ resp' = NoResponse
    /\ UNCHANGED <<pvcs, pvs, store, queue, host, flt, mgr, run, srv>>

\* scanLVM returned the report: SyncLVMStatus builds the map of it, which
\* panics on a row of a group without vg row, and assigns m.LVM
RefreshAssign(n) ==
    /\ wk[n].pc = "assign"
    /\ RefreshReturn(n, scanLVM(wk[n].report, TRUE, TRUE, TRUE))
    /\ resp' = NoResponse
    /\ UNCHANGED <<pvcs, pvs, store, queue, host, flt, mgr, run, srv>>

\* variant: Done puts the key back among the pending entries
WorkerDoneRequeue(n) ==
    /\ wk[n].pc = "done"
    /\ wk' = [wk EXCEPT ![n] = IdleWorker]
    /\ queue' = [queue EXCEPT ![n] = Enqueue(queue[n], wk[n].key)]
    /\ obs' = Observation(n, "done", FALSE, EmptyAnn, FALSE, <<>>, wk[n].ret, FALSE, 0, TRUE)
    /\ resp' = NoResponse
    /\ UNCHANGED <<pvcs, pvs, store, lvm, host, flt, mgr, run, srv>>

\* the deferred c.queue.Done(key): the key is pending again only if it was
\* notified while it was processed, in which case it is in queue already
WorkerDone(n) ==
    /\ wk[n].pc = "done"
    /\ wk' = [wk EXCEPT ![n] = IdleWorker]
    /\ queue' = queue
    \* observed: the round whose syncPVC returned ret is over
    /\ obs' = Observation(n, "done", FALSE, EmptyAnn, FALSE, <<>>, wk[n].ret, FALSE, 0, TRUE)
    /\ resp' = NoResponse
    /\ UNCHANGED <<pvcs, pvs, store, lvm, host, flt, mgr, run, srv>>

\* whether the host holds the logical volume the annotations name
HostHas(h, ann) ==
    <<AnnGet(ann, AnnProvisionerVGName), AnnGet(ann, AnnProvisionerLVName)>> \in h.lvs

\* c.store.GetByKey(key) finds a claim that is not this node's to provision:
\* syncPVC returns nil
SyncSkip(n) ==
    /\ wk[n].pc = "sync"
    /\ LET obj == store[n][wk[n].key]
       IN  /\ obj.exists
           /\ ~(ManagedByMe(obj.ann, n) /\ NotYetProvisioned(obj.ann))
           /\ obs' = Observation(n, "provision", TRUE, obj.ann, HostHas(host[n], obj.ann),
                                 <<>>, "ok", FALSE, 0, TRUE)
           /\ SyncReturn(n, obj.ann, <<>>, "ok")
    /\ resp' = NoResponse
    /\ UNCHANGED <<pvcs, pvs, store, queue, lvm, host, flt, mgr, run, srv>>

\* c.store.GetByKey(key) finds a claim assigned to this node with an empty
\* hostPath: the worker holds the stored object (same: the store still holds
\* this very object) and goes on to the host tools
SyncClaim(n) ==
    /\ wk[n].pc = "sync"
    /\ LET obj == store[n][wk[n].key]
       IN  /\ obj.exists
           /\ ManagedByMe(obj.ann, n) /\ NotYetProvisioned(obj.ann)
           /\ wk' = [wk EXCEPT ![n].pc = "tools", ![n].same = TRUE, ![n].seen = obj.ann,
                               ![n].had = HostHas(host[n], obj.ann)]
    /\ Quiet
    /\ UNCHANGED <<pvcs, pvs, store, queue, lvm, host, flt, mgr, run, srv>>

\* c.store.GetByKey(key) finds nothing: syncPVC calls ReleaseLV
SyncGone(n) ==
    /\ wk[n].pc = "sync"
    /\ ~store[n][wk[n].key].exists
    /\ wk' = [wk EXCEPT ![n].pc = "list"]
    /\ Quiet
    /\ UNCHANGED <<pvcs, pvs, store, queue, lvm, host, flt, mgr, run, srv>>

\* one call r of the LVManager returned during the syncPVC or ReleaseLV
\* (kind) of node n: its error returns from syncPVC, otherwise the worker
\* goes on to next
ToolReturn(n, kind, r, next) ==
    LET cmds == wk[n].cmds \o r.cmds
    IN  /\ host' = [host EXCEPT ![n] = r.host]
        /\ IF r.err
           THEN /\ obs' = Observation(n, kind, TRUE, wk[n].seen, wk[n].had, cmds, "err",
                                      FALSE, 0, TRUE)
                /\ SyncReturn(n, wk[n].seen, cmds, "err")
           ELSE /\ obs' = NoObservation
                /\ wk' = [wk EXCEPT ![n].pc = next, ![n].cmds = cmds]

\* c.lvm.AllocateLV on the annotations of the held claim (a is the exit
\* status of lvcreate)
SyncAllocate(n) ==
    /\ wk[n].pc = "tools"
    /\ \E a \in BOOLEAN :
         LET ann == wk[n].seen
         IN  ToolReturn(n, "provision",
                        AllocateLV(lvm[n], host[n], AnnGet(ann, AnnProvisionerLVName),
                                   AnnGet(ann, AnnProvisionerVGName),
                                   AnnGet(ann, AnnProvisionerLVSize), a),
                        "format")
    /\ resp' = NoResponse
    /\ UNCHANGED <<pvcs, pvs, store, queue, lvm, flt, mgr, run, srv>>

\* variant: the error of FormatLV is dropped
SyncFormatIgnoringError(n) ==
    /\ wk[n].pc = "format"
    /\ \E f \in BOOLEAN :
         LET ann == wk[n].seen
             r == FormatLV(host[n], AnnGet(ann, AnnProvisionerLVName),
                           AnnGet(ann, AnnProvisionerVGName), FsType, f)
         IN  ToolReturn(n, "provision", [r EXCEPT !.err = FALSE], "mkdir")
    /\ resp' = NoResponse
    /\ UNCHANGED <<pvcs, pvs, store, queue, lvm, flt, mgr, run, srv>>

\* c.lvm.FormatLV (f is the exit status of mkfs)
SyncFormat(n) ==
    /\ wk[n].pc = "format"
    /\ \E f \in BOOLEAN :
         LET ann == wk[n].seen
         IN  ToolReturn(n, "provision",
                        FormatLV(host[n], AnnGet(ann, AnnProvisionerLVName),
                                 AnnGet(ann, AnnProvisionerVGName), FsType, f),
                        "mkdir")
    /\ resp' = NoResponse
    /\ UNCHANGED <<pvcs, pvs, store, queue, lvm, flt, mgr, run, srv>>

\* c.lvm.MountLV up to its os.MkdirAll, whose error returns from MountLV
\* and from syncPVC
SyncMkdir(n) ==
    /\ wk[n].pc = "mkdir"
    /\ \E mk \in BOOLEAN :
         LET mntPath == MountPath(AnnGet(wk[n].seen, AnnProvisionerLVName))
         IN  ToolReturn(n, "provision", LVResult(~mk, <<>>, MkdirAll(host[n], mntPath, mk)),
                        "mount")
    /\ resp' = NoResponse
    /\ UNCHANGED <<pvcs, pvs, store, queue, lvm, flt, mgr, run, srv>>

\* the mount command of MountLV (mo is its exit status) and the return of
\* the mount path
SyncMount(n) ==
    /\ wk[n].pc = "mount"
    /\ \E mo \in BOOLEAN :
         LET ann == wk[n].seen
             lvName == AnnGet(ann, AnnProvisionerLVName)
             r == Mount(host[n], lvName, AnnGet(ann, AnnProvisionerVGName), mo)
             cmds == wk[n].cmds \o r.cmds
         IN  /\ host' = [host EXCEPT ![n] = r.host]
             /\ IF r.err
                THEN /\ obs' = Observation(n, "provision", TRUE, ann, wk[n].had, cmds,
                                           "err", FALSE, 0, TRUE)
                     /\ SyncReturn(n, ann, cmds, "err")
                ELSE /\ obs' = NoObservation
                     /\ wk' = [wk EXCEPT ![n].pc = "update", ![n].cmds = cmds,
                                         ![n].hostPath = MountPath(lvName)]
    /\ resp' = NoResponse
    /\ UNCHANGED <<pvcs, pvs, store, queue, lvm, flt, mgr, run, srv>>

\* ann[util.AnnProvisionerHostPath] = hostPath on the held object, which is
\* the store's as long as the informer has not replaced it, then
\* PersistentVolumeClaims(ns).Update(pvc) and the return of syncPVC; fault
\* is an API error of the Update other than a conflict
SyncUpdate(n) ==
    /\ wk[n].pc = "update"
    /\ \E fault \in BOOLEAN :
         LET key == wk[n].key
             ann == AnnPut(wk[n].seen, AnnProvisionerHostPath, wk[n].hostPath)
             written == IF wk[n].same THEN [store EXCEPT ![n][key].ann = ann] ELSE store
             \* an object the informer has replaced is of an older version
             fresh == wk[n].same /\ store[n][key].fresh
             outcome == IF fault THEN "error" ELSE UpdateOutcome(fresh, pvcs[key])
         IN  IF outcome = "ok"
             THEN /\ pvcs' = [pvcs EXCEPT ![key].ann = ann]
                  /\ store' = StaleStore(written, key)
                  /\ flt' = StaleFilter(flt, key)
                  /\ obs' = Observation(n, "provision", TRUE, wk[n].seen, wk[n].had,
                                        wk[n].cmds, "ok", TRUE, 0, TRUE)
                  /\ SyncReturn(n, wk[n].seen, wk[n].cmds, "ok")
             ELSE /\ pvcs' = pvcs
                  /\ store' = written
                  /\ flt' = flt
                  /\ obs' = Observation(n, "provision", TRUE, wk[n].seen, wk[n].had,
                                        wk[n].cmds, "err", FALSE, 0, TRUE)
                  /\ SyncReturn(n, wk[n].seen, wk[n].cmds, "err")
    /\ resp' = NoResponse
    /\ UNCHANGED <<pvs, queue, lvm, host, mgr, run, srv>>

\* ReleaseLV up to its owner test: PersistentVolumes().List, which may fail,
\* the search for the volume of the claim and the test of its node
ReleaseList(n) ==
    /\ wk[n].pc = "list"
    /\ LET found == FindPV(ListPVs(pvs), wk[n].key)
       IN  \/ /\ obs' = Observation(n, "release", FALSE, EmptyAnn, FALSE, <<>>, "err",
                                    FALSE, 0, TRUE)
              /\ SyncReturn(n, EmptyAnn, <<>>, "err")
           \/ IF found = <<>>
              THEN /\ obs' = Observation(n, "release", FALSE, EmptyAnn, FALSE, <<>>, "ok",
                                         FALSE, 0, TRUE)
                   /\ SyncReturn(n, EmptyAnn, <<>>, "ok")
              ELSE LET pv == pvs[found[1]]
                   IN  IF ~OwnedByMe(pv.ann, n)
                       THEN /\ obs' = Observation(n, "release", TRUE, pv.ann,
                                                  HostHas(host[n], pv.ann), <<>>, "ok",
                                                  FALSE, 0, TRUE)
                            /\ SyncReturn(n, pv.ann, <<>>, "ok")
                       ELSE /\ obs' = NoObservation
                            /\ wk' = [wk EXCEPT ![n].pc = "teardown", ![n].key = found[1],
                                                ![n].pv = pv, ![n].valid = TRUE,
                                                ![n].fresh = TRUE, ![n].seen = pv.ann,
                                                ![n].had = HostHas(host[n], pv.ann)]
    /\ resp' = NoResponse
    /\ UNCHANGED <<pvcs, pvs, store, queue, lvm, host, flt, mgr, run, srv>>

\* c.lvm.UnmountLV of the listed volume (u is the exit status of umount);
\* its error returns from ReleaseLV
ReleaseUnmount(n) ==
    /\ wk[n].pc = "teardown"
    /\ \E u \in BOOLEAN :
         ToolReturn(n, "release",
                    UnmountLV(host[n], AnnGet(wk[n].seen, AnnProvisionerLVName), u), "remove")
    /\ resp' = NoResponse
    /\ UNCHANGED <<pvcs, pvs, store, queue, lvm, flt, mgr, run, srv>>

\* c.lvm.RemoveLV (r is the exit status of lvremove); its error returns
\* from ReleaseLV, otherwise the poll begins
ReleaseRemove(n) ==
    /\ wk[n].pc = "remove"
    /\ \E r \in BOOLEAN :
         LET ann == wk[n].seen
         IN  ToolReturn(n, "release",
                        RemoveLV(host[n], AnnGet(ann, AnnProvisionerLVName),
                                 AnnGet(ann, AnnProvisionerVGName), r),
                        "poll")
    /\ resp' = NoResponse
    /\ UNCHANGED <<pvcs, pvs, store, queue, lvm, flt, mgr, run, srv>>

\* a write to volume key reaches the API server: every local copy is stale
StaleWorkers(w, key) ==
    [n \in RNodes |-> IF w[n].pc \in {"teardown", "remove", "poll"} /\ w[n].key = key
                      THEN [w[n] EXCEPT !.fresh = FALSE] ELSE w[n]]

\* the end of one round of wait.Poll on node n, whose condition returned ret
\* after the Update ended in outcome and left the local volume (pv, valid,
\* fresh): the round that finds the poller's channel closed is the last
AttemptEnd(n, ret, pv, valid, fresh, outcome) ==
    LET w == wk[n]
        open == w.tries + 1 < MaxAttempts
        tries == w.tries + (IF ret = "panic" THEN 0 ELSE 1)
        allConflict == w.allConflict /\ outcome \in {"conflict", "none"}
        result == IF ret = "panic" THEN "panic"
                  ELSE IF ret = "done" THEN "ok"
                  ELSE IF ~open THEN "timeout"
                  ELSE "polling"
        others == IF ret = "done" THEN StaleWorkers(wk, w.key) ELSE wk
    IN  /\ IF result = "polling"
           THEN /\ wk' = [wk EXCEPT ![n].pc = "poll", ![n].pv = pv, ![n].valid = valid,
                                    ![n].fresh = fresh, ![n].tries = tries,
                                    ![n].allConflict = allConflict,
                                    ![n].last = outcome]
                /\ obs' = NoObservation
           ELSE /\ obs' = Observation(n, "release", TRUE, w.seen, FALSE, w.cmds, result,
                                      ret = "done", tries, allConflict)
                /\ IF result = "panic"
                   THEN wk' = [wk EXCEPT ![n] = [IdleWorker EXCEPT !.pc = "crashed"]]
                   ELSE wk' = [others EXCEPT ![n] =
                                 [IdleWorker EXCEPT !.pc = "refresh", !.key = w.key,
                                                    !.seen = w.seen, !.cmds = w.cmds,
                                                    !.ret = result]]
        /\ UNCHANGED <<host, lvm, queue>>

\* One round of wait.Poll: the wait for the poller's channel, then the
\* condition up to its Update; after a conflict the re-read is still to come
PollAttempt(n) ==
    /\ wk[n].pc = "poll"
    /\ \E fault \in BOOLEAN :
         LET w == wk[n]
             c == PollCondition(w.pv, w.valid, w.fresh, pvs[w.key], fault)
         IN  /\ pvs' = [pvs EXCEPT ![w.key] = c.stored]
             /\ IF c.ret = "reread"
                THEN /\ wk' = [wk EXCEPT ![n].pc = "reread", ![n].pv = c.pv,
                                         ![n].fresh = FALSE]
                     /\ obs' = NoObservation
                     /\ UNCHANGED <<host, lvm, queue>>
                ELSE AttemptEnd(n, c.ret, c.pv, c.valid, c.fresh, c.outcome)
    /\ resp' = NoResponse
    /\ UNCHANGED <<pvcs, store, flt, mgr, run, srv>>

\* the condition's PersistentVolumes().Get after a conflict (g: it succeeds)
\* and its return, which ends the round
PollReread(n) ==
    /\ wk[n].pc = "reread"
    /\ \E g \in BOOLEAN :
         LET r == RereadPV(pvs[wk[n].key], g)
         IN  AttemptEnd(n, "retry", r.pv, r.valid, r.fresh, "conflict")
    /\ resp' = NoResponse
    /\ UNCHANGED <<pvcs, pvs, store, flt, mgr, run, srv>>

\* ReleaseLV, called by syncPVC for a claim that is gone
ReleaseLV(n) ==
    \/ ReleaseList(n) \/ ReleaseUnmount(n) \/ ReleaseRemove(n)
    \/ PollAttempt(n) \/ PollReread(n)

syncPVC(n) ==
    \/ SyncSkip(n) \/ SyncClaim(n) \/ SyncAllocate(n) \/ SyncFormat(n) \/ SyncMkdir(n)
    \/ SyncMount(n) \/ SyncUpdate(n) \/ SyncGone(n) \/ ReleaseLV(n)

\* c.lvm.SyncLVMStatus() of the worker's round
WorkerRefresh(n) == RefreshVGs(n) \/ RefreshPVs(n) \/ RefreshLVs(n) \/ RefreshAssign(n)

\* the worker's loop around syncPVC
worker(n) == WorkerGet(n) \/ syncPVC(n) \/ WorkerRefresh(n) \/ WorkerDone(n)

----------------------------------------------------------------------------
(* The rest of the cluster *)

\* the provisioning framework calls Provision for a claim of the class that
\* has no volume, sets the ClaimRef and creates the volume it returns
ProvisionClaim(key) ==
    /\ pvcs[key].exists /\ pvcs[key].class = <<storageClass>>
    /\ ~pvs[key].exists
    /\ LET p == Provision(pvcs[key].ann)
       IN  /\ ~p.err
           /\ pvs' = [pvs EXCEPT ![key] = [exists |-> TRUE, ann |-> p.ann,
                                           by |-> "provisioner", src |-> pvcs[key].ann]]
    /\ Quiet
    /\ UNCHANGED <<pvcs, store, queue, lvm, host, wk, flt, mgr, run, srv>>

\* another writer (the volume controller setting the phase) updates the
\* volume while a worker holds a copy of it
VolumeStatusUpdate(key) ==
    /\ pvs[key].exists
    /\ wk # StaleWorkers(wk, key)
    /\ wk' = StaleWorkers(wk, key)
    /\ Quiet
    /\ UNCHANGED <<pvcs, pvs, store, queue, lvm, host, flt, mgr, run, srv>>

\* the user deletes the claim
DeleteClaim(key) ==
    /\ pvcs[key].exists
    /\ pvcs' = [pvcs EXCEPT ![key] = NoClaim]
    /\ store' = StaleStore(store, key)
    /\ flt' = StaleFilter(flt, key)
    /\ Quiet
    /\ UNCHANGED <<pvs, queue, lvm, host, wk, mgr, run, srv>>

Next ==
    \/ \E pod \in Pods, nodes \in NodeLists : FilterStart(pod, nodes)
    \/ FilterFinish
    \/ \E n \in RNodes, key \in ClaimKeys : Watch(n, key)
    \/ \E n \in RNodes, key \in ClaimKeys : Resync(n, key)
    \/ \E n \in RNodes : worker(n)
    \/ \E key \in ClaimKeys : ProvisionClaim(key)
    \/ \E key \in ClaimKeys : VolumeStatusUpdate(key)
    \/ \E key \in ClaimKeys : DeleteClaim(key)

Spec == Init /\ [][Next]_vars

----------------------------------------------------------------------------
(* The LVManager, Provision and UpdateNodeStatus called on their own *)

Loop0 == <<"/", "dev", "/", "loop0">>
MyVG == <<"my", "-", "vg">>
Data == <<"data">>
Size1G == <<"1", "g">>
Free512M == <<"512", "m">>

\* what vgs, pvs and lvs may print: nothing; the tracked group with one
\* volume; two groups, one without volumes; a volume of a group vgs left out
Reports ==
    { Report(<<>>, <<>>, <<>>),
      Report(<<VGRow(TrackedVG, Size1G, Free512M)>>, <<PVRow(Loop0, TrackedVG)>>,
             <<LVRow(Data, TrackedVG)>>),
      Report(<<VGRow(VG1, Size1G, Size1G), VGRow(MyVG, Size1G, Free512M)>>,
             <<PVRow(Loop0, VG1)>>, <<LVRow(<<"N", "-", "C">>, VG1)>>),
      Report(<<VGRow(VG1, Size1G, Free512M)>>, <<PVRow(Loop0, VG1)>>,
             <<LVRow(Data, MyVG)>>) }

LVNames == {Data, <<"N", "-", "C">>}
VGNames == {VG1, MyVG, TrackedVG}

\* the annotations of the claims Provision is called with, as the extender
\* and the controller leave them: none before the placement; the placement
\* of Filter, with or without a request of the domain, whose hostPath is
\* ""; and the placement with the hostPath syncPVC stored
ProvisionInputs ==
    LET lvName == <<"N", "-", "C">>
        placed == {PlacementAnn(EmptyAnn, lvName, VG1, n, <<"pod1">>, Q10) :
                       n \in {<<"n1">>, <<"n2">>}}
                    \cup {PlacementAnn(EmptyAnn, lvName, <<>>, <<"n1">>, <<"pod1">>, <<>>)}
    IN  {EmptyAnn} \cup placed
          \cup {AnnPut(a, AnnProvisionerHostPath, MountPath(lvName)) : a \in placed}

\* the annotations of the assigned claims syncPVC provisions: the placement
\* the extender wrote, with or without a filesystem type asked for
SyncInputs ==
    { AnnPut(AnnPut(AnnPut(t, AnnProvisionerVGName, VG1), AnnProvisionerLVName,
                    <<"N", "-", "C">>), AnnProvisionerLVSize, Q10) :
        t \in {EmptyAnn, AnnPut(EmptyAnn, AnnProvisionerLVFsType, <<"ext4">>),
                AnnPut(EmptyAnn, AnnProvisionerLVFsType, <<"xfs">>)} }

\* namespaces and claim names, which may hold hyphens
Namespaces == {<<"a">>, <<"a", "-", "b">>}
ClaimNames == {<<"c">>, <<"b", "-", "c">>}

\* no claim, no pod, no worker at work
ClusterAtRest ==
    /\ pvcs = [k \in ClaimKeys |-> NoClaim]
    /\ pvs = [k \in ClaimKeys |-> NoVolume]
    /\ store = [n \in RNodes |-> [k \in ClaimKeys |-> CopyOf(NoClaim, FALSE)]]
    /\ queue = [n \in RNodes |-> <<>>]
    /\ lvm = [n \in RNodes |-> InitialLVM]
    /\ host = [n \in RNodes |-> HostState({}, {}, {})]
    /\ wk = [n \in RNodes |-> IdleWorker]
    /\ flt = IdleFilter
    /\ obs = NoObservation
    /\ resp = NoResponse

ManagerInit == ClusterAtRest /\ mgr = IdleManager /\ run = IdleRun /\ srv = IdleServer

\* m.SyncLVMStatus(): only an assignment of m.LVM changes the snapshot
CallSyncLVMStatus(out, scan) ==
    LET r == SyncLVMStatus(mgr.lvm, scanLVM(out, scan[1], scan[2], scan[3]))
    IN  /\ mgr' = [mgr EXCEPT !.lvm = r.lvm,
                              !.ret = Call("SyncLVMStatus", [out |-> out, scan |-> scan],
                                           mgr.lvm, mgr.host, r.ret)]
        /\ UNCHANGED <<clusterVars, run, srv>>

\* the manager after a method that ran one tool on the host with result r
AfterLV(op, args, r) ==
    [mgr EXCEPT !.host = r.host, !.ret = Call(op, args, mgr.lvm, mgr.host, r)]

CallAllocateLV(lvName, vgName, ok) ==
    /\ mgr' = AfterLV("AllocateLV", [lv |-> lvName, vg |-> vgName, size |-> Q10],
                      AllocateLV(mgr.lvm, mgr.host, lvName, vgName, Q10, ok))
    /\ UNCHANGED <<clusterVars, run, srv>>

CallFormatLV(lvName, vgName, ok) ==
    /\ mgr' = AfterLV("FormatLV", [lv |-> lvName, vg |-> vgName],
                      FormatLV(mgr.host, lvName, vgName, FsType, ok))
    /\ UNCHANGED <<clusterVars, run, srv>>

CallRemoveLV(lvName, vgName, ok) ==
    /\ mgr' = AfterLV("RemoveLV", [lv |-> lvName, vg |-> vgName],
                      RemoveLV(mgr.host, lvName, vgName, ok))
    /\ UNCHANGED <<clusterVars, run, srv>>

\* the manager when the running call returns after a step with result r: the
\* commands of the whole call, the host as the step left it, and the mount
\* path when there is no error
Returned(r) ==
    [mgr EXCEPT !.host = r.host,
                !.ret = Call(mgr.at.op, mgr.at.args, mgr.lvm, mgr.host,
                             [err |-> r.err, cmds |-> mgr.at.cmds \o r.cmds,
                              host |-> r.host,
                              hostPath |-> IF r.err THEN <<>> ELSE MountPath(mgr.at.lv)]),
                !.at = NotRunning]

\* m.MountLV(lvName, vgName) is entered; the methods called on their own and
\* the scan go on while it runs
CallMountLV(lvName, vgName) ==
    /\ mgr.at.pc = "none"
    /\ mgr' = [mgr EXCEPT !.at = [op |-> "MountLV", pc |-> "mkdir",
                                  args |-> [lv |-> lvName, vg |-> vgName],
                                  lv |-> lvName, vg |-> vgName, cmds |-> <<>>]]
    /\ UNCHANGED <<clusterVars, run, srv>>

\* os.MkdirAll of MountLV: its error returns before any command runs
MountLVMkdirAll(mk) ==
    /\ mgr.at.pc = "mkdir"
    /\ LET h == MkdirAll(mgr.host, MountPath(mgr.at.lv), mk)
       IN  mgr' = IF mk THEN [mgr EXCEPT !.host = h, !.at.pc = "mount"]
                  ELSE Returned(LVResult(TRUE, <<>>, h))
    /\ UNCHANGED <<clusterVars, run, srv>>

\* mount is run and waited for, and MountLV returns
MountLVMount(ok) ==
    /\ mgr.at.pc = "mount"
    /\ mgr' = Returned(Mount(mgr.host, mgr.at.lv, mgr.at.vg, ok))
    /\ UNCHANGED <<clusterVars, run, srv>>

\* c.Provision(options) for a claim with annotations ann
CallProvision(ann) ==
    /\ mgr' = [mgr EXCEPT !.ret = Call("Provision", ann, mgr.lvm, mgr.host, Provision(ann))]
    /\ UNCHANGED <<clusterVars, run, srv>>

\* controller.UpdateNodeStatus(mgr.LVM)
CallUpdateNodeStatus(ok) ==
    /\ mgr' = [mgr EXCEPT !.ret = Call("UpdateNodeStatus", mgr.lvm, mgr.lvm, mgr.host,
                                       UpdateNodeStatus(mgr.lvm, ok))]
    /\ UNCHANGED <<clusterVars, run, srv>>

\* the provisioning statements of syncPVC for a claim with annotations ann
\* begin: AllocateLV, whose error ends them
CallProvisionLV(ann, a) ==
    LET vgName == AnnGet(ann, AnnProvisionerVGName)
        lvName == AnnGet(ann, AnnProvisionerLVName)
        size == AnnGet(ann, AnnProvisionerLVSize)
        r == AllocateLV(mgr.lvm, mgr.host, lvName, vgName, size, a)
    IN  /\ mgr.at.pc = "none"
        /\ mgr' = IF r.err
                  THEN [mgr EXCEPT !.host = r.host,
                                   !.ret = Call("ProvisionLV", ann, mgr.lvm, mgr.host,
                                                [err |-> TRUE, cmds |-> r.cmds,
                                                 host |-> r.host, hostPath |-> <<>>])]
                  ELSE [mgr EXCEPT !.host = r.host,
                                   !.at = [op |-> "ProvisionLV", pc |-> "format",
                                           args |-> ann, lv |-> lvName, vg |-> vgName,
                                           cmds |-> r.cmds]]
        /\ UNCHANGED <<clusterVars, run, srv>>

\* FormatLV of the provisioning statements, whose error ends them; MountLV
\* follows
ProvisionFormat(f) ==
    /\ mgr.at.pc = "format"
    /\ LET r == FormatLV(mgr.host, mgr.at.lv, mgr.at.vg, FsType, f)
       IN  mgr' = IF r.err THEN Returned(r)
                  ELSE [mgr EXCEPT !.host = r.host, !.at.pc = "mkdir",
                                   !.at.cmds = mgr.at.cmds \o r.cmds]
    /\ UNCHANGED <<clusterVars, run, srv>>

\* the logical volume name Filter writes for the claim ns/pvcName, and the
\* path MountLV mounts it at
CallLVNameOf(ns, pvcName) ==
    /\ mgr' = [mgr EXCEPT !.ret = Call("LVNameOf", <<ns, pvcName>>, mgr.lvm, mgr.host,
                                       [lvName |-> LVNameOf(ns, pvcName),
                                        path |-> MountPath(LVNameOf(ns, pvcName))])]
    /\ UNCHANGED <<clusterVars, run, srv>>

ManagerNext ==
    \/ \E out \in Reports, scan \in Scans : CallSyncLVMStatus(out, scan)
    \/ \E lvName \in LVNames, vgName \in VGNames, ok \in BOOLEAN :
           CallAllocateLV(lvName, vgName, ok)
    \/ \E lvName \in LVNames, vgName \in VGNames, ok \in BOOLEAN :
           CallFormatLV(lvName, vgName, ok)
    \/ \E lvName \in LVNames, vgName \in VGNames : CallMountLV(lvName, vgName)
    \/ \E mk \in BOOLEAN : MountLVMkdirAll(mk)
    \/ \E ok \in BOOLEAN : MountLVMount(ok)
    \/ \E lvName \in LVNames, vgName \in VGNames, ok \in BOOLEAN :
           CallRemoveLV(lvName, vgName, ok)
    \/ \E ann \in ProvisionInputs : CallProvision(ann)
    \/ \E ok \in BOOLEAN : CallUpdateNodeStatus(ok)
    \/ \E ann \in SyncInputs, a \in BOOLEAN : CallProvisionLV(ann, a)
    \/ \E f \in BOOLEAN : ProvisionFormat(f)
    \/ \E ns \in Namespaces, pvcName \in ClaimNames : CallLVNameOf(ns, pvcName)

ManagerSpec == ManagerInit /\ [][ManagerNext]_vars

----------------------------------------------------------------------------
(* The workers of one Controller.Run *)

RunInit == ClusterAtRest /\ mgr = IdleManager /\ run = IdleRun /\ srv = IdleServer

\* enqueuePVC: c.queue.Add(key), for an add, update or delete notification
\* or a resync; after ShutDown an Add returns at once
RunEnqueue(key) ==
    /\ ~run.q.shuttingDown
    /\ run.adds[key] < MaxAdds
    /\ run' = [run EXCEPT !.q = QueueAdd(@, key), !.adds[key] = @ + 1]
    /\ UNCHANGED <<clusterVars, mgr, srv>>

\* worker: c.queue.Get() returns the queue's head
RunGet(w) ==
    /\ run.pc[w] = "Get"
    /\ run.q.queue # <<>>
    /\ run' = [run EXCEPT !.q = QueueGet(@), !.adds[Head(run.q.queue)] = 0,
                          !.pc[w] = "syncPVC", !.key[w] = Head(run.q.queue)]
    /\ UNCHANGED <<clusterVars, mgr, srv>>

\* syncPVC enters c.lvm.AllocateLV or, in ReleaseLV, c.lvm.RemoveLV; or it
\* returns without either and the worker enters c.lvm.SyncLVMStatus
RunSyncPVC(w, call) ==
    /\ run.pc[w] = "syncPVC"
    /\ run' = [run EXCEPT !.pc[w] = call]
    /\ UNCHANGED <<clusterVars, mgr, srv>>

\* AllocateLV or RemoveLV returns, syncPVC returns, the worker enters
\* c.lvm.SyncLVMStatus
RunSyncLVMStatus(w) ==
    /\ run.pc[w] \in {"AllocateLV", "RemoveLV"}
    /\ run' = [run EXCEPT !.pc[w] = "SyncLVMStatus"]
    /\ UNCHANGED <<clusterVars, mgr, srv>>

\* SyncLVMStatus returns; the deferred c.queue.Done(key)
RunDone(w) ==
    /\ run.pc[w] = "SyncLVMStatus"
    /\ run' = [run EXCEPT !.q = QueueDone(@, run.key[w]),
                          !.pc[w] = "Get", !.key[w] = <<>>]
    /\ UNCHANGED <<clusterVars, mgr, srv>>

\* worker: c.queue.Get() on a queue that is shut down and empty returns
\* quit, and the function the worker's loop runs returns
RunQuit(w) ==
    /\ run.pc[w] = "Get"
    /\ run.q.queue = <<>> /\ run.q.shuttingDown
    /\ run' = [run EXCEPT !.pc[w] = "Quit"]
    /\ UNCHANGED <<clusterVars, mgr, srv>>

\* worker: the for loop, which has no exit, runs its function again
RunLoop(w) ==
    /\ run.pc[w] = "Quit"
    /\ run' = [run EXCEPT !.pc[w] = "Get"]
    /\ UNCHANGED <<clusterVars, mgr, srv>>

\* stopCh is closed: Run returns and its deferred c.queue.ShutDown() runs
RunStop ==
    /\ ~run.q.shuttingDown
    /\ run' = [run EXCEPT !.q = QueueShutDown(@)]
    /\ UNCHANGED <<clusterVars, mgr, srv>>

RunNext ==
    \/ \E key \in RunKeys : RunEnqueue(key)
    \/ \E w \in Workers : RunGet(w)
    \/ \E w \in Workers, call \in {"AllocateLV", "RemoveLV", "SyncLVMStatus"} :
           RunSyncPVC(w, call)
    \/ \E w \in Workers : RunSyncLVMStatus(w)
    \/ \E w \in Workers : RunDone(w)
    \/ \E w \in Workers : RunQuit(w)
    \/ \E w \in Workers : RunLoop(w)
    \/ RunStop

RunSpec == RunInit /\ [][RunNext]_vars

----------------------------------------------------------------------------
(* The extender's server: concurrent requests to server.filterNode *)

\* variant: a lock that is granted whoever holds it
LockIgnored(holder) == TRUE

\* svr.lock.Lock() returns when nobody holds the mutex
LockFree(holder) == holder = 0

ServerInit ==
    /\ ClusterAtRest /\ mgr = IdleManager /\ run = IdleRun
    /\ srv \in {ServerWith(args) : args \in [Requests -> Pods \X NodeLists]}

\* the scheduler posts request r to /scheduler/filter: its goroutine reaches
\* svr.lock.Lock()
ServerRequest(r) ==
    /\ srv.req[r].pc = "idle"
    /\ srv' = [srv EXCEPT !.req[r].pc = "Lock"]
    /\ UNCHANGED <<clusterVars, mgr, run>>

\* svr.lock.Lock() returns
ServerLock(r) ==
    /\ srv.req[r].pc = "Lock"
    /\ LockFree(srv.lock)
    /\ srv' = [srv EXCEPT !.lock = r, !.req[r].pc = "Filter"]
    /\ UNCHANGED <<clusterVars, mgr, run>>

\* Filter up to its return (the deferred Unlock runs, after a panic too), or
\* up to PersistentVolumeClaims(ns).Update when it reaches the placement;
\* got tells whether PersistentVolumeClaims(ns).Get succeeds
ServerFilter(r) ==
    /\ srv.req[r].pc = "Filter"
    /\ LET pod == srv.args[r][1]
           nodes == srv.args[r][2]
           pvc == CopyOf(srv.claim, TRUE)
           blocked == srv.blocked \cup {q \in Requests : srv.req[q].pc = "Lock"}
           return(read, out, failed) ==
               [srv EXCEPT !.lock = 0, !.blocked = blocked,
                           !.req[r] = [pc |-> "done", pvc |-> read, req |-> NoRequest,
                                       out |-> out, failed |-> failed]]
       IN  IF FirstClaim(pod.volumes) = <<>>
           THEN srv' = return(pvc, FilterOut("error", FALSE, <<>>, <<"empty pvc">>), FALSE)
           ELSE \E got \in BOOLEAN :
                  IF ~got
                  THEN srv' = return(CopyOf(NoClaim, FALSE),
                                     FilterOut("error", FALSE, <<>>, <<"get">>), TRUE)
                  ELSE \E req \in ScanContainers(pod.containers, NoRequest) :
                         LET p == FilterPlan(pvc, pod, nodes, req)
                         IN  IF p.plan = "return"
                             THEN srv' = return(pvc, p.out, FALSE)
                             ELSE srv' = [srv EXCEPT
                                            !.blocked = blocked,
                                            !.req[r] = [pc |-> "Update", pvc |-> pvc,
                                                        req |-> req, out |-> NoOut,
                                                        failed |-> FALSE]]
    /\ UNCHANGED <<clusterVars, mgr, run>>

\* PersistentVolumeClaims(ns).Update(pvc) of the placement, the return and
\* the deferred Unlock; a stored update makes every other copy stale; fault
\* is an API error of the Update other than a conflict
ServerUpdate(r) ==
    /\ srv.req[r].pc = "Update"
    /\ \E fault \in BOOLEAN :
       LET me == srv.req[r]
           p == FilterPlan(me.pvc, srv.args[r][1], srv.args[r][2], me.req)
           outcome == IF fault THEN "error" ELSE UpdateOutcome(me.pvc.fresh, srv.claim)
           out == IF outcome = "ok" THEN p.out
                  ELSE FilterOut("error", FALSE, <<>>, <<outcome>>)
       IN  srv' = [srv EXCEPT
                     !.lock = 0,
                     !.claim.ann = IF outcome = "ok" THEN p.ann ELSE @,
                     !.req = [q \in Requests |->
                                IF q = r THEN [me EXCEPT !.pc = "done", !.out = out,
                                                          !.failed = fault]
                                ELSE IF outcome = "ok"
                                THEN [srv.req[q] EXCEPT !.pvc.fresh = FALSE]
                                ELSE srv.req[q]]]
    /\ UNCHANGED <<clusterVars, mgr, run>>

ServerNext ==
    \/ \E r \in Requests : ServerRequest(r)
    \/ \E r \in Requests : ServerLock(r)
    \/ \E r \in Requests : ServerFilter(r)
    \/ \E r \in Requests : ServerUpdate(r)

ServerSpec == ServerInit /\ [][ServerNext]_vars

----------------------------------------------------------------------------
(* Properties *)

\* the key of the claim a Filter response is about
RespKey == <<resp.pod.ns, FirstClaim(resp.pod.volumes)>>

\* the last Filter call returned, for a claim it fetched
Answered == resp.out.ret # "none" /\ resp.pvc.exists

\* the last syncPVC ran ReleaseLV's poll
Polled == obs.kind = "release" /\ obs.tries >= 1

\* the name of the tool a command ran
Tool(cmd) == cmd[1]

\* C1: a deletion Sync on node X runs Unmount or Remove, or updates the
\* volume, only if the volume that references the deleted claim carries the
\* owner-node annotation with the value X; and a worker is in the
\* mark-deleted poll (its teardown done) only for a volume it owns.
C1_OwnershipSafety ==
    /\ (obs.kind = "release" /\ (obs.cmds # <<>> \/ obs.wrote))
         => /\ obs.found
            /\ AnnHas(obs.seen, AnnProvisionerNode)
            /\ AnnGet(obs.seen, AnnProvisionerNode) = obs.node
    /\ \A n \in RNodes :
         wk[n].pc \in {"teardown", "remove", "poll", "reread"}
           => /\ AnnHas(wk[n].seen, AnnProvisionerNode)
              /\ AnnGet(wk[n].seen, AnnProvisionerNode) = n

\* C1: the owner tore the volume down and marked it deleted
C1_Witness ==
    /\ obs.kind = "release" /\ obs.found /\ obs.wrote
    /\ Len(obs.cmds) = 2
    /\ AnnGet(obs.seen, AnnProvisionerNode) = obs.node
    /\ \A n \in RNodes : ~store[n][<<NS, <<"C">>>>].exists /\ queue[n] = <<>>

\* C2: in every step, a stored claim whose hostPath annotation is non-empty
\* keeps that hostPath value for as long as the claim exists
C2_MonotonicHostPath ==
    [][\A k \in ClaimKeys :
         (/\ pvcs[k].exists /\ pvcs'[k].exists
          /\ AnnGet(pvcs[k].ann, AnnProvisionerHostPath) # <<>>)
           => /\ AnnHas(pvcs'[k].ann, AnnProvisionerHostPath)
              /\ AnnGet(pvcs'[k].ann, AnnProvisionerHostPath)
                   = AnnGet(pvcs[k].ann, AnnProvisionerHostPath)]_vars

\* C2: a Filter call read the claim with an empty hostPath, the Reconciler
\* stored the hostPath in between, and the Filter's update was refused
C2_Witness ==
    /\ Answered
    /\ resp.out.error = <<"conflict">>
    /\ AnnGet(resp.pvc.ann, AnnProvisionerHostPath) = <<>>
    /\ AnnGet(pvcs[RespKey].ann, AnnProvisionerHostPath) # <<>>

\* C3: a Filter call that reads a claim whose node and volumeGroup
\* annotations are set does not update the claim, and a Reconciler updates a
\* claim only when its node identity is the claim's node annotation
C3_OnlyOwnerMutates ==
    /\ (/\ Answered
        /\ AnnGet(resp.pvc.ann, AnnProvisionerNode) # <<>>
        /\ AnnGet(resp.pvc.ann, AnnProvisionerVGName) # <<>>)
         => ~resp.wrote
    /\ (obs.kind = "provision" /\ obs.wrote)
         => AnnGet(obs.seen, AnnProvisionerNode) = obs.node

\* the teardown a deletion Sync runs for annotations ann when both tools exit 0
GoodTeardown(ann) ==
    << <<"umount", PathJoin(BaseDir, AnnGet(ann, AnnProvisionerLVName)), TRUE>>,
       <<"lvremove", getDevPath(AnnGet(ann, AnnProvisionerLVName),
                                AnnGet(ann, AnnProvisionerVGName)), TRUE>> >>

\* C4: the step that sets a volume's deleted flag is the end of a deletion
\* Sync on the volume's owner node in which umount and then lvremove of its
\* logical volume (the one the claim it was provisioned for names) both
\* exited 0; the flag is only ever "true"; and a step never changes or
\* removes a flag that is set.  The teardown takes the names from the
\* volume's annotations, which hold none: it runs for no logical volume.
C4_DeletedFlag ==
    [][\A k \in ClaimKeys :
         LET was == AnnHas(pvs[k].ann, AnnProvisionerLVDeleted)
             now == AnnHas(pvs'[k].ann, AnnProvisionerLVDeleted)
         IN  /\ was => now
             /\ now => AnnGet(pvs'[k].ann, AnnProvisionerLVDeleted) = <<"true">>
             /\ (~was /\ now)
                  => /\ obs'.kind = "release" /\ obs'.wrote /\ obs'.result = "ok"
                     /\ obs'.node = AnnGet(pvs[k].ann, AnnProvisionerNode)
                     /\ obs'.seen = pvs[k].ann
                     /\ obs'.cmds = GoodTeardown(pvs[k].src)]_vars

\* C5: every volume Provision produced carries the node, volumeGroup and
\* logicalVolumeName annotations with the values the claim had when it was
\* provisioned
C5_VolumeMirrorsClaim ==
    \A k \in ClaimKeys :
      (pvs[k].exists /\ pvs[k].by = "provisioner")
        => \A a \in {AnnProvisionerNode, AnnProvisionerVGName, AnnProvisionerLVName} :
             /\ AnnHas(pvs[k].ann, a)
             /\ AnnGet(pvs[k].ann, a) = AnnGet(pvs[k].src, a)

\* C6: a mark-deleted poll in which every update attempt ended in a conflict
\* ends at the timeout, after the attempts the timeout allows, with a failure
\* of the Sync; and no poll makes more attempts than the timeout allows
C6_ConflictRetryBound ==
    /\ (Polled /\ obs.allConflict)
         => obs.result = "timeout" /\ obs.tries = MaxAttempts /\ ~obs.wrote
    /\ \A n \in RNodes : wk[n].tries < MaxAttempts

\* C7: a Sync whose Allocate finds on the host the volume an earlier
\* Allocate created, for a group the manager knows, runs no lvcreate and does
\* not fail in Allocate
C7_AllocateIdempotent ==
    (/\ obs.kind = "provision" /\ obs.had
     /\ AnnGet(obs.seen, AnnProvisionerVGName) \in HostVGs)
      => \A i \in 1..Len(obs.cmds) : Tool(obs.cmds[i]) # "lvcreate"

\* the requests of all containers of the pod that carry the domain prefix
DomainRequests(pod) ==
    UNION {{r \in pod.containers[i] : HasPrefix(r[1], domainName)} :
             i \in 1..Len(pod.containers)}

\* scenario A: a claim of the configured class without annotations, a pod
\* whose one domain request is <domain>/vg1 with quantity q, and candidates
ScenarioA(q) ==
    /\ Answered
    /\ resp.pvc.class = <<storageClass>>
    /\ resp.pvc.ann = EmptyAnn
    /\ DomainRequests(resp.pod) = {<<ResVG1, q>>}
    /\ resp.nodes # <<>>

\* the annotations scenario A names
FirstPlacement(q) ==
    [a \in {AnnProvisionerNode, AnnProvisionerVGName, AnnProvisionerLVName,
            AnnProvisionerHostPath, AnnProvisionerPodName, AnnProvisionerLVSize} |->
       CASE a = AnnProvisionerNode -> resp.nodes[1]
         [] a = AnnProvisionerVGName -> <<"vg1">>
         [] a = AnnProvisionerLVName -> <<"N", "-", "C">>
         [] a = AnnProvisionerHostPath -> <<>>
         [] a = AnnProvisionerPodName -> resp.pod.name
         [] a = AnnProvisionerLVSize -> q]

\* C8: in scenario A, a Filter call whose update the API server accepts has
\* stored on the claim exactly the six annotations of the first placement,
\* and returns a result with the "not bound" error and no node list; when the
\* update is refused it returns the error and has stored nothing
C8_FirstPlacement ==
    \A q \in {Q10, Q20} :
      ScenarioA(q)
        => IF resp.out.ret = "result"
           THEN /\ resp.wrote
                /\ resp.sent = FirstPlacement(q)
                /\ pvcs[RespKey].ann = FirstPlacement(q)
                /\ resp.out = FilterOut("result", FALSE, <<>>, ErrNotBound)
           ELSE resp.out.ret = "error" /\ ~resp.wrote

\* C8: scenario A answered for two candidates, the first of them n2
C8_Witness ==
    /\ ScenarioA(Q10)
    /\ resp.wrote
    /\ resp.nodes = << <<"n2">>, <<"n1">> >>
    /\ AnnGet(pvcs[RespKey].ann, AnnProvisionerNode) = <<"n2">>

\* a Filter call read a claim of the configured class whose node and
\* hostPath annotations are both non-empty
ReadProvisioned ==
    /\ Answered
    /\ resp.pvc.class = <<storageClass>>
    /\ AnnGet(resp.pvc.ann, AnnProvisionerNode) # <<>>
    /\ AnnGet(resp.pvc.ann, AnnProvisionerHostPath) # <<>>

\* C9: such a call returns the singleton list of the recorded node when
\* that node is a candidate, otherwise a result with a non-empty error and
\* no nodes; it sends no update and the stored claim is as it was read
C9_ProvisionedClaim ==
    ReadProvisioned
      => /\ ~resp.wrote
         /\ pvcs[RespKey].exists /\ pvcs[RespKey].ann = resp.pvc.ann
         /\ IF \E i \in 1..Len(resp.nodes) :
                 resp.nodes[i] = AnnGet(resp.pvc.ann, AnnProvisionerNode)
            THEN resp.out = FilterOut("result", TRUE,
                                      <<AnnGet(resp.pvc.ann, AnnProvisionerNode)>>, <<>>)
            ELSE /\ resp.out.ret = "result"
                 /\ ~resp.out.hasNodes /\ resp.out.nodes = <<>>
                 /\ resp.out.error # <<>>

\* C9: the recorded node n1 is not among the candidates and the call
\* returned the scheduling error
C9_Witness ==
    /\ ReadProvisioned
    /\ AnnGet(resp.pvc.ann, AnnProvisionerNode) = <<"n1">>
    /\ resp.nodes = << <<"n2">> >>
    /\ resp.out.error # <<>>

\* a Filter call read a claim whose storage class is set and is not the
\* configured class
ReadOtherClass ==
    /\ Answered
    /\ resp.pvc.class # <<>>
    /\ resp.pvc.class[1] # storageClass

\* C10: such a call returns the candidate list it was given, with no
\* error, sends no update and leaves the stored claim as it was read
C10_OtherClass ==
    ReadOtherClass
      => /\ resp.out = FilterOut("result", TRUE, resp.nodes, <<>>)
         /\ ~resp.wrote
         /\ pvcs[RespKey] = [exists |-> TRUE, class |-> resp.pvc.class, ann |-> resp.pvc.ann]

\* C10: the claim of the other class carries node and hostPath annotations
\* and the call returned both candidates
C10_Witness ==
    /\ ReadOtherClass
    /\ resp.pvc.ann = ForeignAnn
    /\ resp.nodes = << <<"n2">>, <<"n1">> >>
    /\ resp.out.nodes = resp.nodes

\* the exit status of a command
Status(cmd) == cmd[Len(cmd)]

\* C11: a Sync of an existing claim on node X that runs a host command,
\* writes the claim or fails has read a claim whose node annotation is X and
\* whose hostPath annotation is present and empty; every other Sync of an
\* existing claim runs nothing, writes nothing and returns success
C11_SyncGuard ==
    (obs.kind = "provision" /\ (obs.cmds # <<>> \/ obs.wrote \/ obs.result # "ok"))
      => /\ AnnHas(obs.seen, AnnProvisionerNode)
         /\ AnnGet(obs.seen, AnnProvisionerNode) = obs.node
         /\ AnnHas(obs.seen, AnnProvisionerHostPath)
         /\ AnnGet(obs.seen, AnnProvisionerHostPath) = <<>>

\* C11: node n1 provisioned the claim assigned to it while the claim was
\* stored with an empty hostPath
C11_Witness ==
    /\ obs.kind = "provision" /\ obs.wrote /\ obs.cmds # <<>>
    /\ obs.node = <<"n1">>
    /\ AnnGet(obs.seen, AnnProvisionerNode) = <<"n1">>

\* C12: the commands of a provisioning Sync are, in this order, lvcreate
\* (left out when the snapshot already lists the volume), mkfs and mount,
\* each run only when the ones before exited 0 and each for the volume
\* name, group and size of the claim as read; the claim is written exactly
\* when mount exited 0, and then the stored hostPath is the base directory
\* joined with the volume name
C12_ProvisioningOrder ==
    obs.kind = "provision"
      => LET c == obs.cmds
             lv == AnnGet(obs.seen, AnnProvisionerLVName)
             vg == AnnGet(obs.seen, AnnProvisionerVGName)
             size == AnnGet(obs.seen, AnnProvisionerLVSize)
             dev == getDevPath(lv, vg)
             mnt == <<"/", "data", "/">> \o lv
             tools == [i \in 1..Len(c) |-> Tool(c[i])]
             order == <<"lvcreate", "mkfs", "mount">>
         IN  /\ \/ tools = SubSeq(order, 1, Len(c))
                \/ tools = SubSeq(order, 2, Len(c) + 1)
             /\ Len(c) <= 3
             /\ \A i \in 1..(Len(c) - 1) : Status(c[i])
             /\ \A i \in 1..Len(c) :
                  /\ Tool(c[i]) = "lvcreate" => c[i][2] = lv /\ c[i][3] = size /\ c[i][4] = vg
                  /\ Tool(c[i]) = "mkfs" => c[i][3] = dev
                  /\ Tool(c[i]) = "mount" => c[i][2] = dev /\ c[i][3] = mnt
             /\ obs.wrote
                  => /\ c # <<>> /\ Tool(c[Len(c)]) = "mount" /\ Status(c[Len(c)])
                     /\ \A k \in ClaimKeys :
                          AnnGet(pvcs[k].ann, AnnProvisionerHostPath) = mnt

\* C12: scenario B: lvcreate, mkfs and mount ran for N-C in vg1 with 10Gi
\* and /data/N-C is stored as the claim's hostPath
C12_Witness ==
    /\ obs.kind = "provision" /\ obs.wrote
    /\ Len(obs.cmds) = 3
    /\ obs.cmds[1] = <<"lvcreate", <<"N", "-", "C">>, <<"10Gi">>, <<"vg1">>, TRUE>>
    /\ \E k \in ClaimKeys :
         AnnGet(pvcs[k].ann, AnnProvisionerHostPath) = <<"/", "data", "/", "N", "-", "C">>

\* C13: a provisioning Sync that fails changes no annotation: the step in
\* which it returns its error, and every step of its host tools, leaves the
\* claim as it is in the cluster (the Sync wrote nothing) and in the store
\* the next Sync of the key reads
C13_FailedSyncChangesNothing ==
    [][\A n \in RNodes :
          /\ (obs'.kind = "provision" /\ obs'.node = n /\ obs'.result = "err")
                => /\ ~obs'.wrote
                   /\ pvcs' = pvcs
                   /\ \A k \in ClaimKeys : store'[n][k].ann = store[n][k].ann
          /\ (wk[n].pc \in {"tools", "format", "mkdir", "mount"} /\ wk'[n].pc # wk[n].pc)
                => pvcs' = pvcs /\ store' = store
      ]_vars

\* C14: Provision returns a volume whose host path is the claim's hostPath
\* annotation for every claim whose hostPath annotation is non-empty, and an
\* error and no volume for every claim whose hostPath is absent or empty,
\* for the claims the extender and the controller produce: hostPath is
\* stored only on a claim that carries node and podName, which Provision
\* tests first.
C14_ProvisionByHostPath ==
    mgr.ret.op = "Provision" =>
        LET ann == mgr.ret.args
            r == mgr.ret.result
        IN  IF AnnGet(ann, AnnProvisionerHostPath) # <<>>
            THEN ~r.err /\ r.path = AnnGet(ann, AnnProvisionerHostPath)
            ELSE r.err /\ r.path = <<>>

\* C14: Provision returned the volume of a provisioned claim, with its hostPath
C14_Witness ==
    /\ mgr.ret.op = "Provision"
    /\ AnnGet(mgr.ret.args, AnnProvisionerHostPath) = <<"/", "data", "/", "N", "-", "C">>
    /\ ~mgr.ret.result.err
    /\ mgr.ret.result.path = <<"/", "data", "/", "N", "-", "C">>
    /\ AnnGet(mgr.ret.result.ann, AnnProvisionerHostPath) = mgr.ret.result.path


\* C15: UpdateNodeStatus, when the tracked volume group is present, sends
\* exactly one JSON-patch operation {op "add", path
\* "/status/capacity/<domain>~1<vgName>", value V} where V is the group's free
\* size with its unit upper-cased, not its total size; when the tracked group
\* is absent it sends no patch.  The code sends the total size.
C15_CapacityPatch ==
    mgr.ret.op = "UpdateNodeStatus" =>
        LET vgs == mgr.ret.args
            sent == mgr.ret.result.sent
        IN  IF TrackedVG \in DOMAIN vgs
            THEN /\ Len(sent) = 1
                 /\ Len(sent[1]) = 1
                 /\ sent[1][1].Op = "add"
                 /\ sent[1][1].Path = <<"/", "status", "/", "capacity", "/", "pingcap.com",
                                        "~1", "loopback", "-", "disk">>
                 /\ sent[1][1].Value = ToUpper(vgs[TrackedVG].Free)
            ELSE sent = <<>>


\* the last call was a Refresh, one of whose scans failed to run or to parse
ScanFailed ==
    /\ mgr.ret.op = "SyncLVMStatus"
    /\ \E i \in 1..3 : ~mgr.ret.args.scan[i]

\* C16: if any of the three scans of a Refresh fails, the Refresh returns an
\* error and the snapshot is exactly what it was before the call, with no
\* partial result of the scans that succeeded.
C16_FailedScanKeepsSnapshot ==
    ScanFailed => mgr.ret.result = "err" /\ mgr.lvm = mgr.ret.before

\* vgs and pvs succeeded and listed groups the snapshot does not hold, lvs failed
C16_Witness ==
    /\ ScanFailed
    /\ mgr.ret.args.scan = <<TRUE, TRUE, FALSE>>
    /\ mgr.ret.before # EmptyLVM
    /\ \E i \in 1..Len(mgr.ret.args.out.VG) :
           mgr.ret.args.out.VG[i].VGName \notin DOMAIN mgr.ret.before
    /\ mgr.lvm = mgr.ret.before

\* the names of the rows of one scan that belong to group v
RowsOf(rows, v) == {i \in 1..Len(rows) : rows[i].VGName = v}

\* C17: after every successful Refresh the snapshot contains exactly the
\* volume groups, physical volumes and logical volumes of that scan; a group
\* or logical volume of the previous snapshot that the scan does not list is
\* absent afterwards.
C17_RefreshReplacesSnapshot ==
    (mgr.ret.op = "SyncLVMStatus" /\ mgr.ret.result = "ok") =>
        LET out == mgr.ret.args.out
        IN  /\ DOMAIN mgr.lvm = {out.VG[i].VGName : i \in 1..Len(out.VG)}
            /\ \A v \in DOMAIN mgr.lvm :
                   /\ mgr.lvm[v].Name = v
                   /\ mgr.lvm[v].PVs = {out.PV[i].PVName : i \in RowsOf(out.PV, v)}
                   /\ mgr.lvm[v].LVs = {out.LV[i].LVName : i \in RowsOf(out.LV, v)}
                   /\ \E i \in RowsOf(out.VG, v) :
                          /\ mgr.lvm[v].Size = out.VG[i].VGSize
                          /\ mgr.lvm[v].Free = out.VG[i].VGFree

\* a group with a logical volume was in the snapshot and is not in the scan
C17_Witness ==
    /\ mgr.ret.op = "SyncLVMStatus"
    /\ mgr.ret.result = "ok"
    /\ \E v \in DOMAIN mgr.ret.before :
           /\ mgr.ret.before[v].LVs # {}
           /\ v \notin DOMAIN mgr.lvm
    /\ mgr.lvm # EmptyLVM

\* C18: Allocate for a group that is not in the snapshot fails at once, runs
\* no create command and leaves the snapshot (and the host) unchanged; a
\* failing create command for a known group is returned as an error, with
\* no second attempt.
C18_AllocateErrors ==
    mgr.ret.op = "AllocateLV" =>
        LET r == mgr.ret.result
        IN  /\ mgr.lvm = mgr.ret.before
            /\ mgr.ret.args.vg \notin DOMAIN mgr.ret.before =>
                   r.err /\ r.cmds = <<>> /\ r.host = mgr.ret.host
            /\ \A i \in 1..Len(r.cmds) : Tool(r.cmds[i]) = "lvcreate"
            /\ Len(r.cmds) <= 1
            /\ r.err <=> \/ mgr.ret.args.vg \notin DOMAIN mgr.ret.before
                         \/ \E i \in 1..Len(r.cmds) : ~Status(r.cmds[i])

\* Allocate was asked for a group no row of the snapshot names
C18_Witness ==
    /\ mgr.ret.op = "AllocateLV"
    /\ mgr.ret.before # EmptyLVM
    /\ mgr.ret.args.vg \notin DOMAIN mgr.ret.before
    /\ mgr.ret.result.err

\* a name with every hyphen doubled, from its last atom to its first
RECURSIVE Doubled(_)
Doubled(name) ==
    IF Len(name) = 0 THEN <<>>
    ELSE LET last == name[Len(name)]
             front == Doubled(SubSeq(name, 1, Len(name) - 1))
         IN  IF last = "-" THEN front \o <<"-", "-">> ELSE Append(front, last)

\* the device a command of Format, Mount or Remove names
DeviceOf(cmd) == IF Tool(cmd) = "mkfs" THEN cmd[3] ELSE cmd[2]

\* C19: the device path Format, Mount and Remove use for (vgName, lvName) is
\* "/dev/mapper/", vgName with every hyphen doubled, one hyphen and lvName
\* with every hyphen doubled; the three use the same path for the same pair.
C19_DevicePath ==
    mgr.ret.op \in {"FormatLV", "MountLV", "RemoveLV"} =>
        \* MountLV runs no command when the mount directory cannot be made
        /\ Len(mgr.ret.result.cmds) = 1
               \/ (mgr.ret.op = "MountLV" /\ mgr.ret.result.err /\ mgr.ret.result.cmds = <<>>)
        /\ \A i \in DOMAIN mgr.ret.result.cmds :
               DeviceOf(mgr.ret.result.cmds[i]) =
                   <<"/", "dev", "/", "mapper", "/">> \o Doubled(mgr.ret.args.vg)
                       \o <<"-">> \o Doubled(mgr.ret.args.lv)

\* group "my-vg", volume "data": /dev/mapper/my--vg-data
C19_Witness ==
    /\ mgr.ret.op = "RemoveLV"
    /\ mgr.ret.args.vg = <<"my", "-", "vg">>
    /\ mgr.ret.args.lv = <<"data">>
    /\ DeviceOf(mgr.ret.result.cmds[1]) =
           <<"/", "dev", "/", "mapper", "/", "my", "-", "-", "vg", "-", "data">>


\* C20: on one node Refresh, Allocate and Remove are serialized: for any
\* worker count no Refresh runs while another worker runs a Refresh, an
\* Allocate or a Remove.  Controller.Run starts the configured number of
\* workers on one LVManager and nothing orders their calls.
C20_ManagerCallsSerialized ==
    \A w1, w2 \in Workers :
        (w1 # w2 /\ run.pc[w1] = "SyncLVMStatus") =>
            run.pc[w2] \notin {"SyncLVMStatus", "AllocateLV", "RemoveLV"}


\* request r is inside Filter: it holds what it read or is about to read
InFilter(r) == srv.req[r].pc \in {"Filter", "Update"}

\* the annotations a Filter call for the arguments of request r leaves on a
\* claim that carries ann, when it runs alone and the API server is
\* available to it as it was to r: a call whose Get or Update returned an
\* error that is no conflict leaves the claim as it is (a call that runs
\* alone meets no conflict)
FilterAlone(ann, r) ==
    LET pod == srv.args[r][1]
        pvc == [exists |-> TRUE, class |-> <<storageClass>>, ann |-> ann, fresh |-> TRUE]
    IN  IF FirstClaim(pod.volumes) = <<>> \/ srv.req[r].failed THEN {ann}
        ELSE {FilterPlan(pvc, pod, srv.args[r][2], req).ann :
                 req \in ScanContainers(pod.containers, NoRequest)}

\* the annotations the requests of S leave when they run one after another,
\* in any order, on a claim that carries ann
RECURSIVE OneAfterAnother(_, _)
OneAfterAnother(S, ann) ==
    IF S = {} THEN {ann}
    ELSE UNION {UNION {OneAfterAnother(S \ {r}, a) : a \in FilterAlone(ann, r)} : r \in S}

\* C21: one mutex serializes the filter handler: at most one Filter
\* execution (claim read, decision, claim update) is in progress at any
\* time, and for concurrent requests on the same unassigned claim the
\* claim's annotations are those of running the requests one after another
\* in some order, a request whose Get or Update failed for a reason other
\* than a conflict leaving the claim as it is in that run too.
C21_FilterSerialized ==
    /\ \A r1, r2 \in Requests : (InFilter(r1) /\ InFilter(r2)) => r1 = r2
    /\ srv.claim.ann \in
           OneAfterAnother({r \in Requests : srv.req[r].pc = "done"}, EmptyAnn)

\* both requests returned, one of them stood at the lock while the other
\* placed the claim, and then placed it again
C21_Witness ==
    /\ \A r \in Requests : srv.req[r].pc = "done"
    /\ \E r \in srv.blocked :
           /\ srv.req[r].out.error = ErrNotBound
           /\ AnnGet(srv.claim.ann, AnnProvisionerPodName) = srv.args[r][1].name
           /\ \E q \in Requests \ {r} :
                  /\ srv.req[q].out.error = ErrNotBound
                  /\ srv.args[q][1].name # srv.args[r][1].name
                  /\ srv.args[q][2] # srv.args[r][2]


\* a syncPVC returns on node n in this step, with or without an error
SyncReturns(n) ==
    obs'.kind \in {"provision", "release"} /\ obs'.node = n /\ obs'.result # "panic"

\* C23: every dequeued key is marked done whether its Sync succeeded or
\* failed, and a failed Sync never re-enqueues its key: a Sync that returns,
\* with or without an error, leaves the pending entries alone and sends the
\* worker to the refresh, from there (through its three scans and the
\* assignment) to Done and from Done to the next Get; none of these steps
\* adds a pending entry, nor does the panic of a poll or of a refresh,
\* which ends the process while the deferred Done runs; a key becomes
\* pending only in a step that is no worker's, by a watch notification or
\* a resync.
C23_DoneWithoutRequeue ==
    [][\A n \in RNodes :
          /\ SyncReturns(n) => wk'[n].pc = "refresh" /\ queue'[n] = queue[n]
          /\ (wk[n].pc = "refresh" /\ wk'[n] # wk[n])
                 => wk'[n].pc \in {"pvs", "done"} /\ queue'[n] = queue[n]
          /\ (wk[n].pc = "pvs" /\ wk'[n] # wk[n])
                 => wk'[n].pc \in {"lvs", "done"} /\ queue'[n] = queue[n]
          /\ (wk[n].pc = "lvs" /\ wk'[n] # wk[n])
                 => wk'[n].pc \in {"assign", "done"} /\ queue'[n] = queue[n]
          /\ (wk[n].pc = "assign" /\ wk'[n] # wk[n])
                 => wk'[n].pc \in {"done", "crashed"} /\ queue'[n] = queue[n]
          /\ (wk[n].pc # "crashed" /\ wk'[n].pc = "crashed") => queue'[n] = queue[n]
          /\ (wk[n].pc = "done" /\ wk'[n] # wk[n])
                 => wk'[n].pc = "idle" /\ queue'[n] = queue[n]
          /\ Len(queue'[n]) > Len(queue[n]) =>
                 /\ obs'.kind = "none" /\ wk'[n].pc = wk[n].pc
                 /\ pvcs' = pvcs /\ host' = host
                 /\ \E key \in ClaimKeys :
                        /\ queue'[n] = Append(queue[n], key)
                        /\ store[n][key].exists \/ pvcs[key].exists
      ]_vars

\* the round of a Sync that failed is over: nothing is pending, the worker is free
C23_Witness ==
    /\ obs.kind = "done"
    /\ obs.result = "err"
    /\ queue[obs.node] = <<>>
    /\ wk[obs.node].pc = "idle"


\* how often key stands among the pending entries
Pending(key) == Cardinality({i \in 1..Len(run.q.queue) : run.q.queue[i] = key})

\* C22: the work queue is deduplicating: a claim key appears at most once
\* among the pending entries, however many add, update and delete
\* notifications arrive for it, and once it is dequeued nothing of them is
\* left: the notifications that arrived before cause one Sync.
C22_QueueDeduplicates ==
    \A key \in RunKeys :
        /\ Pending(key) <= 1
        /\ key \in run.q.processing => Pending(key) = 0
        /\ (key \in run.q.processing /\ run.adds[key] = 0) => key \notin run.q.dirty
        /\ run.adds[key] = 0 => Pending(key) = 0

\* two notifications or more for a key that waits, and one pending entry
C22_Witness ==
    \E key \in RunKeys :
        /\ run.adds[key] >= 2
        /\ key \notin run.q.processing
        /\ Pending(key) = 1

\* C24: cooperative stop: after the stop signal no Sync starts for any key,
\* the keys that were pending at the signal included, and a Sync in flight
\* runs to its end.  The queue that is shut down still hands out the keys
\* that were pending.
C24_CooperativeStop ==
    [][run.q.shuttingDown =>
          \A w \in Workers :
              /\ run.pc[w] = "Get" => run'.pc[w] \in {"Get", "Quit"}
              /\ (run.pc[w] # "Get" /\ run'.pc[w] = "Get")
                   => run.pc[w] \in {"SyncLVMStatus", "Quit"}
      ]_vars


\* the snapshot of node n lists the logical volume the annotations name
SnapshotHas(n, ann) ==
    /\ AnnGet(ann, AnnProvisionerVGName) \in DOMAIN lvm[n]
    /\ AnnGet(ann, AnnProvisionerLVName) \in lvm[n][AnnGet(ann, AnnProvisionerVGName)].LVs

\* C25: after every Sync that completes successfully the worker refreshes
\* the Resource Manager before it takes its next key, so that the snapshot a
\* later Allocate of that worker sees includes the volume just created and
\* no longer the volume just removed.  The refresh is called, but its error
\* is only logged: a failed scan leaves the snapshot of before the Sync.
C25_RefreshAfterSync ==
    /\ (/\ obs.kind = "refresh" /\ obs.result = "ok"
        /\ \E i \in 1..Len(obs.cmds) : Tool(obs.cmds[i]) = "lvcreate" /\ Status(obs.cmds[i]))
         => SnapshotHas(obs.node, obs.seen)
    /\ (/\ obs.kind = "refresh" /\ obs.result = "ok"
        /\ \E i \in 1..Len(obs.cmds) : Tool(obs.cmds[i]) = "lvremove" /\ Status(obs.cmds[i]))
         => \A v \in DOMAIN lvm[obs.node] :
                lvm[obs.node][v].LVs = {p[2] : p \in {h \in host[obs.node].lvs : h[1] = v}}


\* a round of node n's mark-deleted poll ends in this step
Attempt(n) ==
    /\ wk[n].pc \in {"poll", "reread"}
    /\ \/ wk'[n].pc = "poll" /\ wk'[n].tries = wk[n].tries + 1
       \/ obs'.kind = "release" /\ obs'.node = n

\* C26: in the mark-deleted retry loop an update attempt that fails with a
\* conflict is followed by a re-read of the latest volume, and the next
\* attempt writes the deleted flag on that re-read version; the loop ends
\* with success at the first attempt whose update succeeds and no update
\* follows it.  A re-read that fails leaves no version to write on: the next
\* attempt aborts the worker.
C26_RetryWithReread ==
    [][\A n \in RNodes :
          /\ (wk[n].pc = "poll" /\ wk'[n].pc = "reread") => pvs' = pvs
          /\ Attempt(n) =>
              /\ (wk'[n].pc = "poll" /\ wk'[n].last = "conflict") =>
                     /\ wk[n].pc = "reread"
                     /\ wk'[n].valid
                     /\ wk'[n].fresh
                     /\ wk'[n].pv = pvs[wk[n].key]
              /\ wk[n].last = "conflict" => obs'.result # "panic"
              /\ pvs' # pvs =>
                     /\ pvs'[wk[n].key].ann = MarkDeleted(wk[n].pv.ann)
                     /\ obs'.result = "ok"
                     /\ wk'[n].pc = "refresh"
      ]_vars


\* C27: the filesystem type passed to Format when a claim is provisioned is
\* the claim's fsType annotation, for every value of the annotation
C27_FsTypeFromClaim ==
    mgr.ret.op = "ProvisionLV" =>
        \A i \in 1..Len(mgr.ret.result.cmds) :
            Tool(mgr.ret.result.cmds[i]) = "mkfs" =>
                mgr.ret.result.cmds[i][2] = AnnGet(mgr.ret.args, AnnProvisionerLVFsType)


\* C28: the commands of a teardown name the logical volume and the volume
\* group recorded on the claim the volume was provisioned for: umount is
\* given the mount path of that logical volume, never the base directory,
\* and lvremove the device of that volume in that group
C28_TeardownNames ==
    obs.kind = "release" =>
        \A k \in ClaimKeys :
            pvs[k].exists =>
                LET lvName == AnnGet(pvs[k].src, AnnProvisionerLVName)
                    vgName == AnnGet(pvs[k].src, AnnProvisionerVGName)
                IN  \A i \in 1..Len(obs.cmds) :
                        /\ Tool(obs.cmds[i]) = "umount" =>
                               /\ obs.cmds[i][2] = MountPath(lvName)
                               /\ obs.cmds[i][2] # BaseDir
                        /\ Tool(obs.cmds[i]) = "lvremove" =>
                               /\ obs.cmds[i][2] = getDevPath(lvName, vgName)
                               /\ lvName # <<>>


\* node n's worker is about to read key from the store; the claim in the
\* cluster is assigned to n without a hostPath while the host holds its
\* logical volume and n's informer has the claim's latest version: an
\* earlier Sync of the key stopped part-way
PartlyProvisioned(n, key) ==
    /\ wk[n].pc = "sync" /\ wk[n].key = key
    /\ pvcs[key].exists /\ store[n][key].exists /\ store[n][key].fresh
    /\ ManagedByMe(pvcs[key].ann, n) /\ NotYetProvisioned(pvcs[key].ann)
    /\ HostHas(host[n], pvcs[key].ann)

\* C29: provisioning is re-entrant: a Sync of a key whose earlier Sync
\* stopped part-way, and that itself returns without an error, has persisted
\* a non-empty hostPath on the claim: it does not return at its read of the
\* store, and when it returns after its Update the hostPath is stored
C29_ReentrantProvisioning ==
    [][\A n \in RNodes, key \in ClaimKeys :
          (/\ PartlyProvisioned(n, key) \/ (wk[n].pc = "update" /\ wk[n].key = key)
           /\ obs'.kind = "provision" /\ obs'.node = n /\ obs'.result = "ok")
            => AnnGet(pvcs'[key].ann, AnnProvisionerHostPath) # <<>>
      ]_vars


\* the hostPath annotation of the claim key changes to a non-empty value
HostPathWritten(key) ==
    /\ pvcs'[key].exists
    /\ AnnGet(pvcs'[key].ann, AnnProvisionerHostPath) # <<>>
    /\ ~pvcs[key].exists
       \/ AnnGet(pvcs[key].ann, AnnProvisionerHostPath)
            # AnnGet(pvcs'[key].ann, AnnProvisionerHostPath)

\* a Filter call for a claim of the configured class returned nodes
Admitted ==
    /\ Answered /\ resp.pvc.class = <<storageClass>>
    /\ resp.out.hasNodes /\ resp.out.nodes # <<>>

\* C30: the hostPath of a claim of the configured class is written only by
\* the worker of the node the claim names, with the logical volume mounted
\* at that path on that node; and Filter returns nodes for such a claim only
\* when the claim it read has a non-empty hostPath, and then exactly the
\* node the claim names, on which that path is mounted
C30_PlacementSafety ==
    [][/\ \A key \in ClaimKeys :
            (HostPathWritten(key) /\ pvcs'[key].class = <<storageClass>>) =>
                /\ obs'.kind = "provision" /\ obs'.wrote
                /\ AnnGet(pvcs'[key].ann, AnnProvisionerNode) = obs'.node
                /\ AnnGet(pvcs'[key].ann, AnnProvisionerHostPath) \in host'[obs'.node].mounts
       /\ Admitted' =>
            LET node == AnnGet(resp'.pvc.ann, AnnProvisionerNode)
                path == AnnGet(resp'.pvc.ann, AnnProvisionerHostPath)
            IN  /\ path # <<>>
                /\ resp'.out.nodes = <<node>>
                /\ node \in RNodes => path \in host'[node].mounts
      ]_vars

\* C30: a pod is admitted to n1, where the worker mounted the volume of its
\* claim and wrote the path
C30_Witness ==
    /\ Admitted
    /\ resp.out.nodes = << <<"n1">> >>
    /\ AnnGet(resp.pvc.ann, AnnProvisionerHostPath) \in host[<<"n1">>].mounts


\* C31: once the node annotation of a claim is non-empty, no Filter call and
\* no Sync changes it, whatever candidates later Filter calls are given
C31_PinningStable ==
    [][\A key \in ClaimKeys :
          (/\ pvcs[key].exists /\ pvcs'[key].exists
           /\ AnnGet(pvcs[key].ann, AnnProvisionerNode) # <<>>)
            => AnnGet(pvcs'[key].ann, AnnProvisionerNode)
                 = AnnGet(pvcs[key].ann, AnnProvisionerNode)
      ]_vars

\* C31: a Filter call whose first candidate is n2 wrote the placement of a
\* claim it read pinned to n1, and the claim is still pinned to n1
C31_Witness ==
    /\ Answered /\ resp.wrote
    /\ AnnGet(resp.pvc.ann, AnnProvisionerNode) = <<"n1">>
    /\ resp.nodes # <<>> /\ resp.nodes[1] = <<"n2">>
    /\ AnnGet(pvcs[RespKey].ann, AnnProvisionerNode) = <<"n1">>


\* C32: the logical volume names Filter writes for two distinct claims
\* (another namespace or another name) differ, and so do their mount paths
C32_DistinctLVNames ==
    [][(/\ mgr.ret.op = "LVNameOf" /\ mgr'.ret.op = "LVNameOf"
        /\ mgr.ret.args # mgr'.ret.args)
         => /\ mgr.ret.result.lvName # mgr'.ret.result.lvName
            /\ mgr.ret.result.path # mgr'.ret.result.path
      ]_vars


\* C33: a Filter call for a pod none of whose containers has a request with
\* the domain prefix writes nothing on the claim, and no placement Filter
\* writes has an empty volume group or an empty size
C33_NoPinningWithoutRequest ==
    (Answered /\ resp.wrote) =>
        /\ DomainRequests(resp.pod) # {}
        /\ AnnGet(resp.sent, AnnProvisionerVGName) # <<>>
        /\ AnnGet(resp.sent, AnnProvisionerLVSize) # <<>>


\* worker w is between queue.Get and queue.Done
AtWork(w) == run.pc[w] \notin {"Get", "Quit"}

\* C34: no two workers of one controller are at work on the same key; a
\* notification for a key that is being processed is kept aside, not handed
\* to another worker, and once the key is marked done it is pending for a
\* later Sync
C34_NoConcurrentSync ==
    /\ \A w1, w2 \in Workers :
           (w1 # w2 /\ AtWork(w1) /\ AtWork(w2)) => run.key[w1] # run.key[w2]
    /\ \A key \in RunKeys :
           /\ (key \in run.q.processing /\ run.adds[key] > 0)
                => key \in run.q.dirty /\ Pending(key) = 0
           /\ (key \notin run.q.processing /\ run.adds[key] > 0) => Pending(key) = 1

\* C34: a key was notified while a worker was at work on it, the other
\* workers wait, and the key is not pending
C34_Witness ==
    \E w \in Workers :
        /\ AtWork(w) /\ run.adds[run.key[w]] > 0
        /\ Pending(run.key[w]) = 0
        /\ \E w2 \in Workers : w2 # w /\ ~AtWork(w2)


\* C35: a worker in the mark-deleted poll holds the volume it is deleting,
\* with the annotations it read, also after a re-read that failed; and no
\* poll ends in a panic
C35_FailedRereadTolerated ==
    /\ \A n \in RNodes :
           wk[n].pc = "poll" =>
               /\ wk[n].valid /\ wk[n].pv.exists
               /\ \A k \in DOMAIN wk[n].seen :
                      AnnHas(wk[n].pv.ann, k) /\ wk[n].pv.ann[k] = wk[n].seen[k]
    /\ obs.kind = "release" => obs.result # "panic"


\* C36: every Filter call returns a result or an error, also for a claim
\* without a storage class and for a first placement without candidates, and
\* a call that returns an error has not written the claim
C36_FilterTotal ==
    /\ resp.out.ret # "panic"
    /\ resp.out.ret = "error" => ~resp.wrote


\* C37: SyncLVMStatus returns nil or an error for whatever the three scans
\* print, a physical or logical volume of a group the vgs scan did not list
\* included; the snapshot after it is the one of before or the one built
\* from the whole report
C37_RefreshTotal ==
    mgr.ret.op = "SyncLVMStatus" =>
        /\ mgr.ret.result \in {"ok", "err"}
        /\ mgr.ret.result = "err" => mgr.lvm = mgr.ret.before
        /\ mgr.ret.result = "ok" =>
               \A i \in 1..Len(mgr.ret.args.out.LV) :
                   /\ mgr.ret.args.out.LV[i].VGName \in DOMAIN mgr.lvm
                   /\ mgr.ret.args.out.LV[i].LVName
                        \in mgr.lvm[mgr.ret.args.out.LV[i].VGName].LVs


\* C38: after the stop signal a worker whose Get returned quit stops: it
\* does not call Get on the shut-down queue again
C38_WorkersStop ==
    [][\A w \in Workers : run.pc[w] = "Quit" => run'.pc[w] # "Get"]_vars

====
